---- MODULE Spec2Model ----
(***************************************************************************)
(* A model of the NetsBlox project parser (src/src/ast.rs): the symbol     *)
(* tables, the script / statement / expression decoders and the sprite,    *)
(* role and project resolvers.                                             *)
(*                                                                         *)
(* Encodings used throughout:                                              *)
(*   Option<T>      the empty sequence << >> for None, <<v>> for Some(v)   *)
(*   Result<T, E>   a record with kind = "Ok" (field val), "Err" (field    *)
(*                  err) or "Panic" (an unwrap / index that aborts)        *)
(*   Vec<T>         a sequence                                             *)
(*   LinkedHashMap  a sequence of [k, v] entries in iteration order        *)
(*   enum variants  a record whose field t names the variant               *)
(***************************************************************************)
EXTENDS Integers, Sequences, FiniteSets, TLC

VARIABLES
    name_transformer,   \* Parser.name_transformer, a function on names
    pc,                 \* position of the running call
    globals,            \* RoleInfo.globals
    fields,             \* SpriteInfo.fields
    locals,             \* ScriptInfo.locals
    xml,                \* the input node handed to the running call
    ret,                \* what the last call returned
    reader              \* the EventReader that Parser::parse polls

vars == <<name_transformer, pc, globals, fields, locals, xml, ret, reader>>

\* ------------------------------------------------------------------------
\* Bounds
\* ------------------------------------------------------------------------

\* the largest number of define calls made on one table in SpecTable
MaxDefines == 3

\* original variable names that inputs may use
Names == {"x", "y", "w"}

\* a transformed name that is no original name
Fresh == "z"

\* ------------------------------------------------------------------------
\* Option and Result
\* ------------------------------------------------------------------------

None == << >>

Some(v) == <<v>>

Ok(v) == [kind |-> "Ok", val |-> v]

Err(e) == [kind |-> "Err", err |-> e]

Panic == [kind |-> "Panic"]

\* ------------------------------------------------------------------------
\* LinkedHashMap (crate linked_hash_map), as used by SymbolTable
\* ------------------------------------------------------------------------

\* LinkedHashMap::get(k).is_some()
MapHas(m, k) == \E i \in 1..Len(m) : m[i].k = k

\* LinkedHashMap::get(k).unwrap()
MapGet(m, k) == m[CHOOSE i \in 1..Len(m) : m[i].k = k].v

\* the entries of m whose key is not k, in order
RECURSIVE MapWithout(_, _)
MapWithout(m, k) ==
    IF m = << >> THEN << >>
    ELSE IF Head(m).k = k THEN MapWithout(Tail(m), k)
    ELSE <<Head(m)>> \o MapWithout(Tail(m), k)

\* LinkedHashMap::insert: the map afterwards (an existing key is replaced
\* and moved to the back of the iteration order)
MapInsert(m, k, v) == Append(MapWithout(m, k), [k |-> k, v |-> v])

\* LinkedHashMap::insert: the returned previous value
MapPrev(m, k) == IF MapHas(m, k) THEN Some(MapGet(m, k)) ELSE None

\* ------------------------------------------------------------------------
\* SymbolTable
\* ------------------------------------------------------------------------

\* SymbolTable::new
SymbolTable_new == [orig_to_def |-> << >>, trans_to_orig |-> << >>]

\* a builder default that maps every name to one fixed name
DefaultTransformer_constant == [n \in Names |-> Ok(Fresh)]

\* the builder default of Parser.name_transformer: |v| Ok(v.into())
DefaultTransformer == [n \in Names |-> Ok(n)]

\* the name transformers a Parser may be configured with
Transformers == [Names -> {Ok(t) : t \in Names \cup {Fresh}} \cup {Err("()")}]

\* SymbolTable::transform_name
transform_name(T, name) ==
    IF T[name].kind = "Ok" THEN Ok(T[name].val)
    ELSE Err([t |-> "NameTransformError", name |-> name])

\* a define that writes its index entry before it looks for a collision
define_index_first(T, self, name, value) ==
    LET tr == transform_name(T, name) IN
    IF tr.kind = "Err" THEN [res |-> tr, table |-> self]
    ELSE
      LET trans_name == tr.val
          entry == [name |-> name, trans_name |-> trans_name, value |-> value]
          indexed == [self EXCEPT !.trans_to_orig = MapInsert(@, name, trans_name)]
      IN
      IF MapHas(self.trans_to_orig, trans_name) THEN
        LET orig == MapGet(self.trans_to_orig, trans_name) IN
        IF ~MapHas(self.orig_to_def, orig) THEN [res |-> Panic, table |-> indexed]
        ELSE [res |-> Err([t |-> "ConflictingTrans", trans_name |-> trans_name,
                           names |-> <<MapGet(self.orig_to_def, orig).name, name>>]),
              table |-> indexed]
      ELSE
        [res |-> Ok(MapPrev(self.orig_to_def, name)),
         table |-> [orig_to_def |-> MapInsert(self.orig_to_def, name, entry),
                    trans_to_orig |-> indexed.trans_to_orig]]

\* SymbolTable::define: the returned Result, and the table afterwards
define(T, self, name, value) ==
    LET tr == transform_name(T, name) IN
    IF tr.kind = "Err" THEN [res |-> tr, table |-> self]
    ELSE
      LET trans_name == tr.val
          entry == [name |-> name, trans_name |-> trans_name, value |-> value]
      IN
      IF MapHas(self.trans_to_orig, trans_name) THEN
        LET orig == MapGet(self.trans_to_orig, trans_name) IN
        IF ~MapHas(self.orig_to_def, orig) THEN [res |-> Panic, table |-> self]
        ELSE [res |-> Err([t |-> "ConflictingTrans", trans_name |-> trans_name,
                           names |-> <<MapGet(self.orig_to_def, orig).name, name>>]),
              table |-> self]
      ELSE
        [res |-> Ok(MapPrev(self.orig_to_def, name)),
         table |-> [orig_to_def |-> MapInsert(self.orig_to_def, name, entry),
                    trans_to_orig |-> MapInsert(self.trans_to_orig, name, trans_name)]]

\* SymbolTable::get
SymbolTable_get(self, name) == MapPrev(self.orig_to_def, name)

\* SymbolTable::into_defs
into_defs(self) == [i \in 1..Len(self.orig_to_def) |-> self.orig_to_def[i].v]

\* a ref_at that takes the original name as the transformed name
ref_at_untransformed(self, location) ==
    [name |-> self.name, trans_name |-> self.name, location |-> location]

\* VariableDef::ref_at
ref_at(self, location) ==
    [name |-> self.name, trans_name |-> self.trans_name, location |-> location]

\* ------------------------------------------------------------------------
\* Value, Constant and the conversions into Expr
\* ------------------------------------------------------------------------

\* Value::Number(v)
Number(v) == [t |-> "Number", num |-> v]

\* Value::String(v)
String(v) == [t |-> "String", str |-> v]

\* Value::Bool(v)
Bool(v) == [t |-> "Bool", b |-> v]

\* Value::List(v)
List(v) == [t |-> "List", items |-> v]

\* Value::Constant(v)
Constant(v) == [t |-> "Constant", c |-> v]

\* Expr::Value(v), which is also what v.into() gives for an Expr
ExprValue(v) == [t |-> "Value", v |-> v]

\* ------------------------------------------------------------------------
\* Xml, the generic tree
\* ------------------------------------------------------------------------

\* struct XmlAttr
XmlAttr(name, value) == [name |-> name, value |-> value]

\* struct Xml
Xml(name, text, attrs, children) ==
    [name |-> name, text |-> text, attrs |-> attrs, children |-> children]

\* Xml::attr: the first attribute of that name
Xml_attr(self, name) ==
    IF \E i \in 1..Len(self.attrs) : self.attrs[i].name = name
    THEN Some(self.attrs[CHOOSE i \in 1..Len(self.attrs) :
                 /\ self.attrs[i].name = name
                 /\ \A j \in 1..(i - 1) : self.attrs[j].name # name])
    ELSE None

\* Xml::get: follow a path of child names, taking the first child of each name
RECURSIVE Xml_get(_, _)
Xml_get(self, path) ==
    IF path = << >> THEN Some(self)
    ELSE IF \E i \in 1..Len(self.children) : self.children[i].name = Head(path)
    THEN Xml_get(self.children[CHOOSE i \in 1..Len(self.children) :
                    /\ self.children[i].name = Head(path)
                    /\ \A j \in 1..(i - 1) : self.children[j].name # Head(path)],
                 Tail(path))
    ELSE None

\* clean_newlines: every "\r\n", "\r" and "\n" becomes "\n"; the texts of the
\* model that hold a line break are listed, every other text has none
clean_newlines(s) ==
    CASE s = "a\r\nb" -> "a\nb"
      [] s = "a\rb" -> "a\nb"
      [] OTHER -> s

\* str::parse::<f64> on the literal texts of the model: the numeric texts and
\* their values; every other text of the model is no number
ParseF64 == [t \in {"0", "1", "2", "10"} |->
                CASE t = "0" -> 0 [] t = "1" -> 1 [] t = "2" -> 2 [] t = "10" -> 10]

\* ------------------------------------------------------------------------
\* Errors
\* ------------------------------------------------------------------------

\* Error::InvalidProject { error }
InvalidProject(e) == [t |-> "InvalidProject", error |-> e]

\* an error variant that carries role, sprite and block_type
BlockError(t, self, s) ==
    [t |-> t, role |-> self.role.name, sprite |-> self.sprite.name, block_type |-> s]

\* an error variant that carries role and sprite only
SpriteError(t, self) ==
    [t |-> t, role |-> self.role.name, sprite |-> self.sprite.name]

\* ProjectError::BlockChildCount
BlockChildCount(self, s, needed, got) ==
    [t |-> "BlockChildCount", role |-> self.role.name, sprite |-> self.sprite.name,
     block_type |-> s, needed |-> needed, got |-> got]

\* ProjectError::BlockOptionUnknown
BlockOptionUnknown(self, s, got) ==
    [t |-> "BlockOptionUnknown", role |-> self.role.name, sprite |-> self.sprite.name,
     block_type |-> s, got |-> got]

\* Error::UndefinedVariable
UndefinedVariable(self, name) ==
    [t |-> "UndefinedVariable", role |-> self.role.name, sprite |-> self.sprite.name,
     name |-> name]

\* ------------------------------------------------------------------------
\* ScriptInfo: the expression decoder
\* ------------------------------------------------------------------------

\* ScriptInfo::new, with the role and sprite it borrows spelled out
ScriptInfo_new(T, role_name, globals_, sprite_name, fields_) ==
    [parser |-> T,
     role |-> [name |-> role_name, globals |-> globals_],
     sprite |-> [name |-> sprite_name, fields |-> fields_],
     locals |-> SymbolTable_new]

\* check_children_get_comment with needed and got exchanged in the error
check_children_get_comment_swapped(self, expr, s, req) ==
    IF Len(expr.children) < req
    THEN Err(InvalidProject(BlockChildCount(self, s, Len(expr.children), req)))
    ELSE Ok(IF Len(expr.children) > req /\ expr.children[req + 1].name = "comment"
            THEN Some(clean_newlines(expr.children[req + 1].text))
            ELSE None)

\* macro check_children_get_comment: Err for too few children (the macro's
\* early return), else Ok of the optional comment
check_children_get_comment(self, expr, s, req) ==
    IF Len(expr.children) < req
    THEN Err(InvalidProject(BlockChildCount(self, s, req, Len(expr.children))))
    ELSE Ok(IF Len(expr.children) > req /\ expr.children[req + 1].name = "comment"
            THEN Some(clean_newlines(expr.children[req + 1].text))
            ELSE None)

\* reference_var with the sprite's fields consulted before the locals
reference_var_fields_first(self, name) ==
    IF SymbolTable_get(self.sprite.fields, name) # None
    THEN Ok(ref_at(SymbolTable_get(self.sprite.fields, name)[1], "Field"))
    ELSE IF SymbolTable_get(self.locals, name) # None
    THEN Ok(ref_at(SymbolTable_get(self.locals, name)[1], "Local"))
    ELSE IF SymbolTable_get(self.role.globals, name) # None
    THEN Ok(ref_at(SymbolTable_get(self.role.globals, name)[1], "Global"))
    ELSE Err(UndefinedVariable(self, name))

\* ScriptInfo::reference_var
reference_var(self, name) ==
    IF SymbolTable_get(self.locals, name) # None
    THEN Ok(ref_at(SymbolTable_get(self.locals, name)[1], "Local"))
    ELSE IF SymbolTable_get(self.sprite.fields, name) # None
    THEN Ok(ref_at(SymbolTable_get(self.sprite.fields, name)[1], "Field"))
    ELSE IF SymbolTable_get(self.role.globals, name) # None
    THEN Ok(ref_at(SymbolTable_get(self.role.globals, name)[1], "Global"))
    ELSE Err(UndefinedVariable(self, name))

\* serde_json::Value variants
JString(v) == [t |-> "JString", str |-> v]

JBool(v) == [t |-> "JBool", b |-> v]

JNumber(v) == [t |-> "JNumber", as_f64 |-> Some(v)]

JArray(v) == [t |-> "JArray", items |-> v]

JObject == [t |-> "JObject"]

JNull == [t |-> "JNull"]

\* serde_json::from_str on the payloads of the model; any other text of the
\* model is not JSON
serde_json_from_str(s) ==
    CASE s = "[]" -> Ok(JArray(<< >>))
      [] s = "[1,\"a\",true]" -> Ok(JArray(<<JNumber(1), JString("a"), JBool(TRUE)>>))
      [] s = "[[2]]" -> Ok(JArray(<<JArray(<<JNumber(2)>>)>>))
      [] s = "[null]" -> Ok(JArray(<<JNull>>))
      [] s = "[1,{}]" -> Ok(JArray(<<JNumber(1), JObject>>))
      [] OTHER -> Err("syntax")

\* the ? operator on a Result: an Err (or a panic) is returned at once, an Ok
\* continues with its value.  The Result is drawn from a one-element set, so
\* that it is computed once however often the continuation reads its value
Try(r, Continue(_)) ==
    CHOOSE y \in {IF x.kind # "Ok" THEN x ELSE Continue(x.val) : x \in {r}} : TRUE

RECURSIVE Value_try_from(_)
\* the loop of Value::try_from over the items of an array
RECURSIVE Value_try_from_all(_, _)
Value_try_from_all(vals, res) ==
    IF vals = << >> THEN Ok(res)
    ELSE Try(Value_try_from(Head(vals)),
             LAMBDA v : Value_try_from_all(Tail(vals), Append(res, v)))

\* impl TryFrom<JsonValue> for Value
Value_try_from(val) ==
    CASE val.t = "JString" -> Ok(String(val.str))
      [] val.t = "JBool" -> Ok(Bool(val.b))
      [] val.t = "JArray" ->
            Try(Value_try_from_all(val.items, << >>), LAMBDA res : Ok(List(res)))
      [] val.t = "JNumber" ->
            IF val.as_f64 # None THEN Ok(Number(val.as_f64[1]))
            ELSE Err(InvalidProject([t |-> "InvalidJson", reason |-> "failed to convert to f64"]))
      [] val.t = "JObject" ->
            Err(InvalidProject([t |-> "InvalidJson", reason |-> "got object"]))
      [] val.t = "JNull" ->
            Err(InvalidProject([t |-> "InvalidJson", reason |-> "got null"]))

\* the block types decoded by binary_op!: the variant and its two fields
BinaryExprs ==
    [reportSum |-> <<"Add", "left", "right">>,
     reportDifference |-> <<"Sub", "left", "right">>,
     reportProduct |-> <<"Mul", "left", "right">>,
     reportQuotient |-> <<"Div", "left", "right">>,
     reportModulus |-> <<"Mod", "left", "right">>,
     reportPower |-> <<"Pow", "base", "power">>,
     reportAnd |-> <<"And", "left", "right">>,
     reportOr |-> <<"Or", "left", "right">>,
     reportIsIdentical |-> <<"RefEq", "left", "right">>,
     reportEquals |-> <<"Eq", "left", "right">>,
     reportLessThan |-> <<"Less", "left", "right">>,
     reportGreaterThan |-> <<"Greater", "left", "right">>,
     reportRandom |-> <<"RandInclusive", "a", "b">>,
     reportNumbers |-> <<"RangeInclusive", "start", "stop">>,
     reportListIndex |-> <<"ListFind", "value", "list">>]

\* the block types decoded by unary_op! with the field named value
UnaryExprs ==
    [reportNot |-> "Not",
     reportRound |-> "Round",
     reportListLength |-> "Listlen",
     reportStringSize |-> "Strlen",
     reportUnicodeAsLetter |-> "UnicodeToChar",
     reportUnicode |-> "CharToUnicode"]

\* the block types decoded by variadic_op!: the variant and its field
VariadicExprs ==
    [reportJoinWords |-> <<"Strcat", "values">>,
     reportConcatenatedLists |-> <<"Listcat", "lists">>,
     reportNewList |-> <<"MakeList", "values">>]

\* the reportMonadic options that wrap the operand in a one-field variant
MonadicExprs ==
    [neg |-> "Neg", abs |-> "Abs", sqrt |-> "Sqrt", floor |-> "Floor",
     ceiling |-> "Ceil", sin |-> "Sin", cos |-> "Cos", tan |-> "Tan",
     asin |-> "Asin", acos |-> "Acos", atan |-> "Atan"]

\* the reportMonadic options that decode to Log { value, base }
MonadicLogs ==
    [ln |-> ExprValue(Constant("E")), lg |-> ExprValue(Number(2)),
     log |-> ExprValue(Number(10))]

\* the reportMonadic options that decode to Pow { base, power }
MonadicPows ==
    ("e^" :> ExprValue(Constant("E"))) @@ ("2^" :> ExprValue(Number(2)))
        @@ ("10^" :> ExprValue(Number(10)))

RECURSIVE parse_expr(_, _)

\* macro binary_op!
binary_op(self, expr, s, res, left, right) ==
    Try(check_children_get_comment(self, expr, s, 2), LAMBDA comment :
    Try(parse_expr(self, expr.children[1]), LAMBDA l :
    Try(parse_expr(self, expr.children[2]), LAMBDA r :
    Ok(("t" :> res) @@ (left :> l) @@ (right :> r) @@ ("comment" :> comment)))))

\* macro unary_op!, extra being the fields the invocation sets itself
unary_op(self, expr, s, res, val, extra) ==
    Try(check_children_get_comment(self, expr, s, 1), LAMBDA comment :
    Try(parse_expr(self, expr.children[1]), LAMBDA v :
    Ok(("t" :> res) @@ (val :> v) @@ ("comment" :> comment) @@ extra)))

\* the loop of variadic_op! and of the plain list literal: decode the items
\* in order, stopping at the first error
RECURSIVE parse_exprs(_, _, _)
parse_exprs(self, items, res) ==
    IF items = << >> THEN Ok(res)
    ELSE Try(parse_expr(self, Head(items)),
             LAMBDA v : parse_exprs(self, Tail(items), Append(res, v)))

\* macro variadic_op!
variadic_op(self, expr, s, res, val) ==
    Try(check_children_get_comment(self, expr, s, 1), LAMBDA comment :
    Try(parse_exprs(self, expr.children[1].children, << >>), LAMBDA vs :
    Ok(("t" :> res) @@ (val :> vs) @@ ("comment" :> comment))))

\* parse_expr, "list" without struct="atomic": every item's first child must
\* decode to a literal Value
RECURSIVE parse_list_items(_, _, _)
parse_list_items(self, items, values) ==
    IF items = << >> THEN Ok(ExprValue(List(values)))
    ELSE IF Head(items).children = << >>
    THEN Err(InvalidProject(SpriteError("ListItemNoValue", self)))
    ELSE Try(parse_expr(self, Head(items).children[1]), LAMBDA x :
             IF x.t = "Value"
             THEN parse_list_items(self, Tail(items), Append(values, x.v))
             ELSE Err(InvalidProject([t |-> "ValueNotEvaluated", role |-> self.role.name,
                                      sprite_opt |-> Some(self.sprite.name)])))

\* parse_expr, "reportListItem"
parse_reportListItem(self, expr, s) ==
    Try(check_children_get_comment(self, expr, s, 2), LAMBDA comment :
    Try(parse_expr(self, expr.children[2]), LAMBDA list :
    LET opt == Xml_get(expr.children[1], <<"option">>) IN
    IF opt # None THEN
        CASE opt[1].text = "last" ->
                Ok([t |-> "ListLastIndex", list |-> list, comment |-> comment])
          [] opt[1].text = "any" ->
                Ok([t |-> "ListRandIndex", list |-> list, comment |-> comment])
          [] opt[1].text = "" -> Err(BlockError("BlockOptionNotSelected", self, s))
          [] OTHER -> Err(InvalidProject(BlockOptionUnknown(self, s, opt[1].text)))
    ELSE
        Try(parse_expr(self, expr.children[1]), LAMBDA index :
        Ok([t |-> "ListIndex", list |-> list, index |-> index, comment |-> comment]))))

\* parse_expr, "reportMonadic"
parse_reportMonadic(self, expr, s) ==
    Try(check_children_get_comment(self, expr, s, 2), LAMBDA comment :
    LET f == Xml_get(expr.children[1], <<"option">>) IN
    IF f = None THEN Err(InvalidProject(BlockError("BlockMissingOption", self, s))) ELSE
    IF Len(f[1].children) # 0 THEN Err(BlockError("BlockOptionNotConst", self, s)) ELSE
    LET func == f[1].text IN
    Try(parse_expr(self, expr.children[2]), LAMBDA value :
    CASE func = "id" -> Ok(value)
      [] func \in DOMAIN MonadicExprs ->
            Ok([t |-> MonadicExprs[func], value |-> value, comment |-> comment])
      [] func \in DOMAIN MonadicLogs ->
            Ok([t |-> "Log", value |-> value, base |-> MonadicLogs[func],
                comment |-> comment])
      [] func \in DOMAIN MonadicPows ->
            Ok([t |-> "Pow", base |-> MonadicPows[func], power |-> value,
                comment |-> comment])
      [] func = "" -> Err(BlockError("BlockOptionNotSelected", self, s))
      [] OTHER -> Err(InvalidProject(BlockOptionUnknown(self, s, func)))))

\* parse_expr, a "block" node with an s attribute
parse_expr_block(self, expr, s) ==
    CASE s \in DOMAIN BinaryExprs ->
            binary_op(self, expr, s, BinaryExprs[s][1], BinaryExprs[s][2], BinaryExprs[s][3])
      [] s \in DOMAIN UnaryExprs ->
            unary_op(self, expr, s, UnaryExprs[s], "value", << >>)
      [] s = "reportListIsEmpty" ->
            Try(check_children_get_comment(self, expr, s, 1), LAMBDA comment :
            Try(parse_expr(self, expr.children[1]), LAMBDA value :
            Ok([t |-> "Greater",
                left |-> [t |-> "Listlen", value |-> value, comment |-> None],
                right |-> ExprValue(Number(0)), comment |-> comment])))
      [] s = "reportListContainsItem" ->
            Try(check_children_get_comment(self, expr, s, 2), LAMBDA comment :
            Try(parse_expr(self, expr.children[1]), LAMBDA value :
            Try(parse_expr(self, expr.children[2]), LAMBDA list :
            Ok([t |-> "Greater",
                left |-> [t |-> "ListFind", value |-> value, list |-> list,
                          comment |-> None],
                right |-> ExprValue(Number(0)), comment |-> comment]))))
      [] s = "reportListItem" -> parse_reportListItem(self, expr, s)
      [] s = "reportCDR" ->
            unary_op(self, expr, s, "ListSlice", "value",
                     [from |-> Some(ExprValue(Number(2))), to |-> None])
      [] s = "reportCONS" ->
            Try(check_children_get_comment(self, expr, s, 2), LAMBDA comment :
            Try(parse_expr(self, expr.children[1]), LAMBDA val :
            Try(parse_expr(self, expr.children[1]), LAMBDA list :
            Ok([t |-> "Listcat", lists |-> <<val, list>>, comment |-> comment]))))
      [] s \in DOMAIN VariadicExprs ->
            variadic_op(self, expr, s, VariadicExprs[s][1], VariadicExprs[s][2])
      [] s = "reportBoolean" ->
            LET v == Xml_get(expr, <<"l", "bool">>) IN
            IF v # None /\ v[1].text = "true" THEN Ok(ExprValue(Bool(TRUE)))
            ELSE IF v # None /\ v[1].text = "false" THEN Ok(ExprValue(Bool(FALSE)))
            ELSE Err(InvalidProject(SpriteError("InvalidBoolLiteral", self)))
      [] s = "reportMonadic" -> parse_reportMonadic(self, expr, s)
      [] s = "reportIfElse" ->
            Try(check_children_get_comment(self, expr, s, 3), LAMBDA comment :
            Try(parse_expr(self, expr.children[1]), LAMBDA condition :
            Try(parse_expr(self, expr.children[2]), LAMBDA then :
            Try(parse_expr(self, expr.children[3]), LAMBDA otherwise :
            Ok([t |-> "Conditional", condition |-> condition, then |-> then,
                otherwise |-> otherwise, comment |-> comment])))))
      [] OTHER -> Err(BlockError("UnknownBlockType", self, s))

\* ScriptInfo::parse_expr
parse_expr(self, expr) ==
    CASE expr.name = "l" ->
            IF expr.text \in DOMAIN ParseF64 THEN Ok(ExprValue(Number(ParseF64[expr.text])))
            ELSE Ok(ExprValue(String(expr.text)))
      [] expr.name = "bool" ->
            CASE expr.text = "true" -> Ok(ExprValue(Bool(TRUE)))
              [] expr.text = "false" -> Ok(ExprValue(Bool(FALSE)))
              [] OTHER -> Err(InvalidProject([t |-> "BoolUnknownValue",
                                role |-> self.role.name, sprite |-> self.sprite.name,
                                value |-> expr.text]))
      [] expr.name = "list" ->
            IF Xml_attr(expr, "struct") # None /\ Xml_attr(expr, "struct")[1].value = "atomic"
            THEN LET json == serde_json_from_str("[" \o expr.text \o "]") IN
                 IF json.kind # "Ok"
                 THEN Err(InvalidProject([t |-> "InvalidJson",
                                          reason |-> "content was not json"]))
                 ELSE Try(Value_try_from(json.val), LAMBDA v : Ok(ExprValue(v)))
            ELSE parse_list_items(self, expr.children, << >>)
      [] expr.name = "block" ->
            IF Xml_attr(expr, "var") # None
            THEN Try(check_children_get_comment(self, expr, "var", 0), LAMBDA comment :
                 Try(reference_var(self, Xml_attr(expr, "var")[1].value), LAMBDA var :
                 Ok([t |-> "Variable", var |-> var, comment |-> comment])))
            ELSE IF Xml_attr(expr, "s") = None
            THEN Err(InvalidProject(SpriteError("BlockWithoutType", self)))
            ELSE parse_expr_block(self, expr, Xml_attr(expr, "s")[1].value)
      [] OTHER -> Err(BlockError("UnknownBlockType", self, expr.name))

\* ------------------------------------------------------------------------
\* ScriptInfo: the script and statement decoders.  These take &mut self, so
\* each returns its Result together with the ScriptInfo afterwards.
\* ------------------------------------------------------------------------

\* a returned Result and the ScriptInfo the call leaves behind
Returned(res, self) == [res |-> res, self |-> self]

\* the ? operator, in a method that takes &mut self, on a Result that left
\* self as it was
TryAt(r, self, Continue(_)) ==
    CHOOSE y \in {IF x.kind # "Ok" THEN Returned(x, self) ELSE Continue(x.val) : x \in {r}} : TRUE

\* the ? operator on the call of a method that takes &mut self: continue
\* with the value and the ScriptInfo the call has left
TryMut(r, Continue(_, _)) ==
    CHOOSE y \in {IF x.res.kind # "Ok" THEN x ELSE Continue(x.res.val, x.self) : x \in {r}} : TRUE

\* ScriptInfo::parse_hat
parse_hat(self, stmt) ==
    IF Xml_attr(stmt, "s") = None
    THEN Err(InvalidProject(SpriteError("BlockWithoutType", self)))
    ELSE
    LET s == Xml_attr(stmt, "s")[1].value IN
    CASE s = "receiveGo" ->
            Try(check_children_get_comment(self, stmt, s, 0), LAMBDA comment :
            Ok(Some([t |-> "OnFlag", comment |-> comment])))
      [] s = "receiveKey" ->
            Try(check_children_get_comment(self, stmt, s, 1), LAMBDA comment :
            LET k == Xml_get(stmt.children[1], <<"option">>) IN
            IF k = None
            THEN Err(InvalidProject(BlockError("BlockMissingOption", self, s)))
            ELSE IF Len(k[1].children) # 0
            THEN Err(BlockError("BlockOptionNotConst", self, s))
            ELSE IF k[1].text = ""
            THEN Err(BlockError("BlockOptionNotSelected", self, s))
            ELSE Ok(Some([t |-> "OnKey", key |-> k[1].text, comment |-> comment])))
      [] OTHER -> Ok(None)

\* macro define_local_and_ref!
define_local_and_ref(self, name, value) ==
    LET d == define(self.parser, self.locals, name, value) IN
    CASE d.res.kind = "Ok" ->
            Returned(Ok(ref_at(SymbolTable_get(d.table, name)[1], "Local")),
                     [self EXCEPT !.locals = d.table])
      [] d.res.kind = "Panic" -> Returned(Panic, self)
      [] d.res.kind = "Err" /\ d.res.err.t = "NameTransformError" ->
            Returned(Err([t |-> "NameTransformError", name |-> d.res.err.name,
                          role_opt |-> Some(self.role.name),
                          sprite_opt |-> Some(self.sprite.name)]), self)
      [] d.res.kind = "Err" /\ d.res.err.t = "ConflictingTrans" ->
            Returned(Err([t |-> "LocalsWithSameTransName", role |-> self.role.name,
                          sprite |-> self.sprite.name,
                          trans_name |-> d.res.err.trans_name,
                          names |-> d.res.err.names]), self)

\* parse_block, "doDeclareVariables": the loop over the listed names
RECURSIVE declare_vars(_, _, _)
declare_vars(self, names, vars_) ==
    IF names = << >> THEN Returned(Ok(vars_), self)
    ELSE TryMut(define_local_and_ref(self, Head(names).text, Number(0)),
                LAMBDA v, self1 : declare_vars(self1, Tail(names), Append(vars_, v)))

RECURSIVE parse(_, _)
RECURSIVE parse_block(_, _)

\* parse_block, "doFor" and "doForEach": exprs are the children decoded as
\* expressions before the body, body the child that holds the loop body
parse_loop(self, stmt, s, req, exprs, body) ==
    TryAt(check_children_get_comment(self, stmt, s, req), self, LAMBDA comment :
    IF stmt.children[1].name # "l"
    THEN Returned(Err(InvalidProject(BlockError("NonConstantUpvar", self, s))), self)
    ELSE
    TryAt(parse_exprs(self, [i \in 1..Len(exprs) |-> stmt.children[exprs[i]]], << >>), self,
          LAMBDA es :
    TryMut(parse(self, stmt.children[body]), LAMBDA stmts, self1 :
    TryMut(define_local_and_ref(self1, stmt.children[1].text, Number(0)), LAMBDA var, self2 :
    Returned(Ok(IF s = "doFor"
                THEN [t |-> "ForLoop", var |-> var, first |-> es[1], last |-> es[2],
                      stmts |-> stmts.stmts, comment |-> comment]
                ELSE [t |-> "ForeachLoop", var |-> var, items |-> es[1],
                      stmts |-> stmts.stmts, comment |-> comment]),
             self2)))))

\* parse_block, the list blocks that choose a variant by an option:
\* "doDeleteFromList", "doInsertInList" and "doReplaceInList".  first and
\* second are the two children decoded up front, in the order of the code;
\* slot is the child searched for the option; index is the child decoded as
\* the index when there is no option; byOption maps option texts to variants
parse_list_option(self, stmt, s, req, first, second, slot, index, byOption, noOption) ==
    Try(check_children_get_comment(self, stmt, s, req), LAMBDA comment :
    Try(IF first.at = 0 THEN Ok(<< >>) ELSE parse_expr(self, stmt.children[first.at]),
        LAMBDA a :
    Try(parse_expr(self, stmt.children[second.at]), LAMBDA b :
    LET given == (IF first.at = 0 THEN << >> ELSE (first.field :> a))
                    @@ (second.field :> b) @@ ("comment" :> comment)
        opt == Xml_get(stmt.children[slot], <<"option">>)
    IN
    IF opt # None THEN
        CASE opt[1].text \in DOMAIN byOption -> Ok(("t" :> byOption[opt[1].text]) @@ given)
          [] opt[1].text = "" -> Err(BlockError("BlockOptionNotSelected", self, s))
          [] OTHER -> Err(InvalidProject(BlockOptionUnknown(self, s, opt[1].text)))
    ELSE
        Try(parse_expr(self, stmt.children[index]), LAMBDA i :
        Ok(("t" :> noOption) @@ ("index" :> i) @@ given)))))

\* parse_block, a block whose children are decoded as expressions and then
\* as nested script bodies: "doRepeat", "doUntil", "doIf", "doForever",
\* "doIfElse" and "doWarp".  exprFields names the fields of the leading
\* expression children, bodyFields those of the bodies that follow them
RECURSIVE parse_bodies(_, _, _, _, _)
parse_bodies(self, stmt, at, bodyFields, node) ==
    IF bodyFields = << >> THEN Returned(Ok(node), self)
    ELSE TryMut(parse(self, stmt.children[at]), LAMBDA stmts, self1 :
                parse_bodies(self1, stmt, at + 1, Tail(bodyFields),
                             node @@ (Head(bodyFields) :> stmts.stmts)))

parse_control(self, stmt, s, res, exprFields, bodyFields) ==
    TryAt(check_children_get_comment(self, stmt, s, Len(exprFields) + Len(bodyFields)), self,
          LAMBDA comment :
    TryAt(parse_exprs(self, SubSeq(stmt.children, 1, Len(exprFields)), << >>), self,
          LAMBDA es :
    parse_bodies(self, stmt, Len(exprFields) + 1, bodyFields,
                 ("t" :> res) @@ ("comment" :> comment)
                    @@ [f \in {exprFields[i] : i \in 1..Len(exprFields)} |->
                            es[CHOOSE i \in 1..Len(exprFields) : exprFields[i] = f]])))

\* the doDeleteFromList table with its two variants exchanged
DeleteFromListOptions_exchanged == [last |-> "RemoveAll", all |-> "Pop"]

\* parse_block, "doDeleteFromList": the variant for each option text
DeleteFromListOptions == [last |-> "Pop", all |-> "RemoveAll"]

\* parse_block, "doInsertInList": the variant for each option text
InsertInListOptions ==
    [last |-> "Push", random |-> "InsertAtRand", any |-> "InsertAtRand"]

\* parse_block, "doReplaceInList": the variant for each option text
ReplaceInListOptions ==
    [last |-> "LastIndexAssign", random |-> "RandIndexAssign", any |-> "RandIndexAssign"]

\* the arguments each control block type passes on: the variant, the fields
\* of its expression children and the fields of its bodies
ControlBlocks ==
    [doRepeat |-> <<"Repeat", <<"times">>, <<"stmts">>>>,
     doUntil |-> <<"UntilLoop", <<"condition">>, <<"stmts">>>>,
     doIf |-> <<"If", <<"condition">>, <<"then">>>>,
     doForever |-> <<"InfLoop", << >>, <<"stmts">>>>,
     doIfElse |-> <<"IfElse", <<"condition">>, <<"then", "otherwise">>>>,
     doWarp |-> <<"Warp", << >>, <<"stmts">>>>]

\* the arguments each list block type passes on: the required count, the
\* two children decoded up front, the option slot, the index child, the
\* option table and the variant without an option
ListBlocks ==
    [doDeleteFromList |->
        [req |-> 2, first |-> [at |-> 0, field |-> ""], second |-> [at |-> 2, field |-> "list"],
         slot |-> 1, index |-> 1, byOption |-> DeleteFromListOptions, noOption |-> "RemoveAt"],
     doInsertInList |->
        [req |-> 3, first |-> [at |-> 1, field |-> "value"],
         second |-> [at |-> 3, field |-> "list"],
         slot |-> 2, index |-> 1, byOption |-> InsertInListOptions, noOption |-> "InsertAt"],
     doReplaceInList |->
        [req |-> 3, first |-> [at |-> 3, field |-> "value"],
         second |-> [at |-> 2, field |-> "list"],
         slot |-> 1, index |-> 1, byOption |-> ReplaceInListOptions,
         noOption |-> "IndexAssign"]]

\* ScriptInfo::parse_block
parse_block(self, stmt) ==
    IF Xml_attr(stmt, "s") = None
    THEN Returned(Err(InvalidProject(SpriteError("BlockWithoutType", self))), self)
    ELSE
    LET s == Xml_attr(stmt, "s")[1].value IN
    CASE s = "doDeclareVariables" ->
            TryAt(check_children_get_comment(self, stmt, s, 1), self, LAMBDA comment :
            TryMut(declare_vars(self, stmt.children[1].children, << >>), LAMBDA vs, self1 :
            Returned(Ok([t |-> "Assign", vars |-> vs, value |-> ExprValue(Number(0)),
                         comment |-> comment]),
                     self1)))
      [] s \in {"doSetVar", "doChangeVar"} ->
            TryAt(check_children_get_comment(self, stmt, s, 2), self, LAMBDA comment :
            IF stmt.children[1].name # "l"
            THEN Returned(Err(SpriteError("DerefAssignment", self)), self)
            ELSE
            TryAt(reference_var(self, stmt.children[1].text), self, LAMBDA var :
            TryAt(parse_expr(self, stmt.children[2]), self, LAMBDA value :
            Returned(Ok(IF s = "doSetVar"
                        THEN [t |-> "Assign", vars |-> <<var>>, value |-> value,
                              comment |-> comment]
                        ELSE [t |-> "AddAssign", var |-> var, value |-> value,
                              comment |-> comment]),
                     self))))
      [] s = "doFor" -> parse_loop(self, stmt, s, 4, <<2, 3>>, 4)
      [] s = "doForEach" -> parse_loop(self, stmt, s, 3, <<2>>, 3)
      [] s \in DOMAIN ControlBlocks ->
            parse_control(self, stmt, s, ControlBlocks[s][1], ControlBlocks[s][2],
                          ControlBlocks[s][3])
      [] s \in DOMAIN ListBlocks ->
            Returned(parse_list_option(self, stmt, s, ListBlocks[s].req, ListBlocks[s].first,
                        ListBlocks[s].second, ListBlocks[s].slot, ListBlocks[s].index,
                        ListBlocks[s].byOption, ListBlocks[s].noOption), self)
      [] s = "doAddToList" -> Returned(binary_op(self, stmt, s, "Push", "value", "list"), self)
      [] s = "doReport" -> Returned(unary_op(self, stmt, s, "Return", "value", << >>), self)
      [] s = "doWait" -> Returned(unary_op(self, stmt, s, "Sleep", "seconds", << >>), self)
      [] OTHER -> Returned(Err(BlockError("UnknownBlockType", self, s)), self)

\* ScriptInfo::parse, the loop over the statements
RECURSIVE parse_stmts(_, _, _, _)
parse_stmts(self, hat, stmts_xml, stmts) ==
    IF stmts_xml = << >> THEN Returned(Ok([hat |-> hat, stmts |-> stmts]), self)
    ELSE IF Head(stmts_xml).name = "block"
    THEN TryMut(parse_block(self, Head(stmts_xml)), LAMBDA stmt, self1 :
                parse_stmts(self1, hat, Tail(stmts_xml), Append(stmts, stmt)))
    ELSE Returned(Err(InvalidProject([t |-> "UnknownBlockMetaType",
                        role |-> self.role.name, sprite |-> self.sprite.name,
                        meta_type |-> Head(stmts_xml).name])), self)

\* ScriptInfo::parse
parse(self, script) ==
    IF script.children = << >> THEN Returned(Ok([hat |-> None, stmts |-> << >>]), self)
    ELSE TryAt(parse_hat(self, script.children[1]), self, LAMBDA hat :
               parse_stmts(self, hat,
                           IF hat = None THEN script.children ELSE Tail(script.children),
                           << >>))

\* ------------------------------------------------------------------------
\* SpecTable: define calls on one symbol table, under every transformer
\* ------------------------------------------------------------------------

\* the state of a specification before any call, but for its own variables
Idle ==
    /\ fields = SymbolTable_new
    /\ locals = SymbolTable_new
    /\ xml = None
    /\ reader = None

InitTable ==
    /\ name_transformer \in Transformers
    /\ pc = 0
    /\ globals = SymbolTable_new
    /\ ret = None
    /\ Idle

\* one call of SymbolTable::define on the table held in globals
Define(name) ==
    /\ pc < MaxDefines
    /\ IF ret = None THEN TRUE ELSE ret[1].res.kind # "Panic"
    /\ LET r == define(name_transformer, globals, name, Number(0)) IN
        /\ globals' = r.table
        /\ ret' = Some([name |-> name, before |-> globals, res |-> r.res])
    /\ pc' = pc + 1
    /\ UNCHANGED <<name_transformer, fields, locals, xml, reader>>

NextTable == \E name \in Names : Define(name)

SpecTable == InitTable /\ [][NextTable]_vars

\* ------------------------------------------------------------------------
\* SpriteInfo and RoleInfo: the loops that fill the field and global tables
\* ------------------------------------------------------------------------

\* RoleInfo::new
RoleInfo_new(T, name) == [parser |-> T, name |-> name, globals |-> SymbolTable_new]

\* SpriteInfo::new
SpriteInfo_new(role, name) ==
    [parser |-> role.parser, role |-> role, name |-> name, fields |-> SymbolTable_new]

\* RoleInfo::parse, the loop that defines the collected globals; defs are
\* the (name, value) pairs
RECURSIVE define_globals(_, _)
define_globals(self, defs) ==
    IF defs = << >> THEN Returned(Ok(<< >>), self)
    ELSE
    LET d == define(self.parser, self.globals, Head(defs).name, Head(defs).value) IN
    CASE d.res.kind = "Ok" /\ d.res.val = None ->
            define_globals([self EXCEPT !.globals = d.table], Tail(defs))
      [] d.res.kind = "Ok" /\ d.res.val # None ->
            Returned(Err(InvalidProject([t |-> "GlobalsWithSameName", role |-> self.name,
                                         name |-> d.res.val[1].name])),
                     [self EXCEPT !.globals = d.table])
      [] d.res.kind = "Panic" -> Returned(Panic, self)
      [] d.res.kind = "Err" /\ d.res.err.t = "NameTransformError" ->
            Returned(Err([t |-> "NameTransformError", name |-> d.res.err.name,
                          role_opt |-> Some(self.name), sprite_opt |-> None]), self)
      [] d.res.kind = "Err" /\ d.res.err.t = "ConflictingTrans" ->
            Returned(Err([t |-> "GlobalsWithSameTransName", role |-> self.name,
                          trans_name |-> d.res.err.trans_name,
                          names |-> d.res.err.names]), self)

\* SpriteInfo::parse, the loop that defines the collected fields
RECURSIVE define_fields(_, _)
define_fields(self, defs) ==
    IF defs = << >> THEN Returned(Ok(<< >>), self)
    ELSE
    LET d == define(self.parser, self.fields, Head(defs).name, Head(defs).value) IN
    CASE d.res.kind = "Ok" /\ d.res.val = None ->
            define_fields([self EXCEPT !.fields = d.table], Tail(defs))
      [] d.res.kind = "Ok" /\ d.res.val # None ->
            Returned(Err(InvalidProject([t |-> "FieldsWithSameName",
                                         role |-> self.role.name, sprite |-> self.name,
                                         name |-> d.res.val[1].name])),
                     [self EXCEPT !.fields = d.table])
      [] d.res.kind = "Panic" -> Returned(Panic, self)
      [] d.res.kind = "Err" /\ d.res.err.t = "NameTransformError" ->
            Returned(Err([t |-> "NameTransformError", name |-> d.res.err.name,
                          role_opt |-> Some(self.role.name),
                          sprite_opt |-> Some(self.name)]), self)
      [] d.res.kind = "Err" /\ d.res.err.t = "ConflictingTrans" ->
            Returned(Err([t |-> "FieldsWithSameTransName", role |-> self.role.name,
                          sprite |-> self.name, trans_name |-> d.res.err.trans_name,
                          names |-> d.res.err.names]), self)

\* ------------------------------------------------------------------------
\* SpriteInfo::parse, RoleInfo::parse and Parser::parse over the generic tree
\* ------------------------------------------------------------------------

\* the ? operator, in a function that returns a plain Result, on the call of
\* a method that takes &mut self
TryOf(r, Continue(_, _)) ==
    CHOOSE y \in {IF x.res.kind # "Ok" THEN x.res ELSE Continue(x.res.val, x.self) : x \in {r}} : TRUE

\* the children of the node with the given name, in order
\* (children.iter().filter(|v| v.name == name))
RECURSIVE ChildrenNamed(_, _)
ChildrenNamed(children, name) ==
    IF children = << >> THEN << >>
    ELSE IF Head(children).name = name
    THEN <<Head(children)>> \o ChildrenNamed(Tail(children), name)
    ELSE ChildrenNamed(Tail(children), name)

\* a ScriptInfo that starts with the local w of an earlier script
ScriptInfo_of_kept(sprite) ==
    [ScriptInfo_new(sprite.parser, sprite.role.name, sprite.role.globals,
                    sprite.name, sprite.fields)
        EXCEPT !.locals = define(sprite.parser, SymbolTable_new, "w", Number(0)).table]

\* the ScriptInfo a SpriteInfo creates
ScriptInfo_of(sprite) ==
    ScriptInfo_new(sprite.parser, sprite.role.name, sprite.role.globals,
                   sprite.name, sprite.fields)

\* SpriteInfo::parse, the loop that collects the (name, value) pairs of the
\* variable elements
RECURSIVE collect_fields(_, _, _)
collect_fields(self, vars_, defs) ==
    IF vars_ = << >> THEN Ok(defs)
    ELSE
    LET def == Head(vars_) IN
    IF Xml_attr(def, "name") = None
    THEN Err(InvalidProject([t |-> "UnnamedField", role |-> self.role.name,
                             sprite |-> self.name]))
    ELSE
    LET name == Xml_attr(def, "name")[1].value IN
    IF def.children = << >>
    THEN Err(InvalidProject([t |-> "FieldNoValue", role |-> self.role.name,
                             sprite |-> self.name, name |-> name]))
    ELSE
    Try(parse_expr(ScriptInfo_of(self), def.children[1]), LAMBDA x :
    IF x.t # "Value"
    THEN Err(InvalidProject([t |-> "ValueNotEvaluated", role |-> self.role.name,
                             sprite_opt |-> Some(self.name)]))
    ELSE collect_fields(self, Tail(vars_), Append(defs, [name |-> name, value |-> x.v])))

\* str::starts_with("report") on the type tags of the model: the tags that
\* begin with "report" are the expression block types and the three listed
starts_with_report(s) ==
    s \in DOMAIN BinaryExprs \cup DOMAIN UnaryExprs \cup DOMAIN VariadicExprs
            \cup {"reportListIsEmpty", "reportListContainsItem", "reportListItem",
                  "reportCDR", "reportCONS", "reportMonadic", "reportIfElse",
                  "reportBoolean", "reportNothing", "report"}

\* a match that drops only the empty bodies and the bodies whose only child
\* has a var attribute
dropped_var_only(script_xml) ==
    \/ Len(script_xml.children) = 0
    \/ /\ Len(script_xml.children) = 1
       /\ Xml_attr(script_xml.children[1], "var") # None

\* SpriteInfo::parse, the match that drops a script body: an empty one, or
\* one whose only child has a var attribute or a type tag that begins with
\* "report"
dropped(script_xml) ==
    \/ Len(script_xml.children) = 0
    \/ /\ Len(script_xml.children) = 1
       /\ \/ Xml_attr(script_xml.children[1], "var") # None
          \/ /\ Xml_attr(script_xml.children[1], "s") # None
             /\ starts_with_report(Xml_attr(script_xml.children[1], "s")[1].value)

\* SpriteInfo::parse, the loop over the script bodies
RECURSIVE parse_scripts(_, _, _)
parse_scripts(self, scripts_xml, scripts) ==
    IF scripts_xml = << >> THEN Ok(scripts)
    ELSE IF dropped(Head(scripts_xml)) THEN parse_scripts(self, Tail(scripts_xml), scripts)
    ELSE Try(parse(ScriptInfo_of(self), Head(scripts_xml)).res, LAMBDA script :
             parse_scripts(self, Tail(scripts_xml), Append(scripts, script)))

\* SpriteInfo::parse
SpriteInfo_parse(self, sprite) ==
    Try(IF Xml_get(sprite, <<"variables">>) = None THEN Ok(<< >>)
        ELSE collect_fields(self,
                ChildrenNamed(Xml_get(sprite, <<"variables">>)[1].children, "variable"),
                << >>),
        LAMBDA defs :
    TryOf(define_fields(self, defs), LAMBDA unit, self1 :
    Try(IF Xml_get(sprite, <<"scripts">>) = None THEN Ok(<< >>)
        ELSE parse_scripts(self1, Xml_get(sprite, <<"scripts">>)[1].children, << >>),
        LAMBDA scripts :
    Ok([name |-> self1.name, fields |-> into_defs(self1.fields), scripts |-> scripts]))))

\* RoleInfo::parse, the loop that collects the (name, value) pairs of the
\* variable elements; role is the name attribute of the role
RECURSIVE collect_globals(_, _, _, _)
collect_globals(self, role, vars_, defs) ==
    IF vars_ = << >> THEN Ok(defs)
    ELSE
    LET def == Head(vars_) IN
    IF Xml_attr(def, "name") = None
    THEN Err(InvalidProject([t |-> "UnnamedGlobal", role |-> role]))
    ELSE
    LET name == Xml_attr(def, "name")[1].value IN
    IF def.children = << >>
    THEN Err(InvalidProject([t |-> "GlobalNoValue", role |-> role, name |-> name]))
    ELSE
    Try(parse_expr(ScriptInfo_of(SpriteInfo_new(self, "global")), def.children[1]), LAMBDA x :
    IF x.t # "Value"
    THEN Err(InvalidProject([t |-> "ValueNotEvaluated", role |-> role,
                             sprite_opt |-> None]))
    ELSE collect_globals(self, role, Tail(vars_),
                         Append(defs, [name |-> name, value |-> x.v])))

\* RoleInfo::parse, the loop over the stage and the sprite elements
RECURSIVE parse_sprites(_, _, _, _)
parse_sprites(self, role, sprites_xml, sprites) ==
    IF sprites_xml = << >> THEN Ok(sprites)
    ELSE
    LET sprite == Head(sprites_xml) IN
    IF Xml_attr(sprite, "name") = None
    THEN Err(InvalidProject([t |-> "UnnamedSprite", role |-> role]))
    ELSE
    Try(SpriteInfo_parse(SpriteInfo_new(self, Xml_attr(sprite, "name")[1].value), sprite),
        LAMBDA parsed : parse_sprites(self, role, Tail(sprites_xml), Append(sprites, parsed)))

\* RoleInfo::parse
RoleInfo_parse(self, role_root) ==
    IF Xml_attr(role_root, "name") = None
    THEN Err(InvalidProject([t |-> "UnnamedRole"]))
    ELSE
    LET role == Xml_attr(role_root, "name")[1].value
        content == Xml_get(role_root, <<"project">>)
    IN
    IF content = None THEN Err(InvalidProject([t |-> "NoRoleContent", role |-> role]))
    ELSE
    LET notes == IF Xml_get(content[1], <<"notes">>) = None THEN ""
                 ELSE Xml_get(content[1], <<"notes">>)[1].text
        stage == Xml_get(content[1], <<"stage">>)
        variables == Xml_get(content[1], <<"variables">>)
    IN
    IF stage = None THEN Err(InvalidProject([t |-> "NoStageDef", role |-> role]))
    ELSE
    Try(IF variables = None THEN Ok(<< >>)
        ELSE collect_globals(self, role, ChildrenNamed(variables[1].children, "variable"),
                             << >>),
        LAMBDA defs :
    TryOf(define_globals(self, defs), LAMBDA unit, self1 :
    Try(IF Xml_get(stage[1], <<"sprites">>) = None THEN Ok(<< >>)
        ELSE parse_sprites(self1, role,
                <<stage[1]>>
                    \o ChildrenNamed(Xml_get(stage[1], <<"sprites">>)[1].children, "sprite"),
                << >>),
        LAMBDA sprites :
    Ok([name |-> role, notes |-> notes, globals |-> into_defs(self1.globals),
        sprites |-> sprites]))))

\* Parser::parse, the loop over the children of the root
RECURSIVE parse_roles(_, _, _)
parse_roles(T, children, roles) ==
    IF children = << >> THEN Ok(roles)
    ELSE IF Head(children).name # "role" THEN parse_roles(T, Tail(children), roles)
    ELSE IF Xml_attr(Head(children), "name") = None
    THEN Err(InvalidProject([t |-> "UnnamedRole"]))
    ELSE
    Try(RoleInfo_parse(RoleInfo_new(T, Xml_attr(Head(children), "name")[1].value),
                       Head(children)),
        LAMBDA role : parse_roles(T, Tail(children), Append(roles, role)))

\* Parser::opt
Parser_opt(project) == Ok(project)

\* Parser::parse from the point where the root element has been ingested as
\* the tree project
Parser_parse_root(T, optimize, project) ==
    LET proj_name == IF Xml_attr(project, "name") = None THEN "untitled"
                     ELSE Xml_attr(project, "name")[1].value
    IN
    Try(parse_roles(T, project.children, << >>), LAMBDA roles :
    IF optimize THEN Parser_opt([name |-> proj_name, roles |-> roles])
    ELSE Ok([name |-> proj_name, roles |-> roles]))

\* ------------------------------------------------------------------------
\* Input nodes: the shapes of the project format the decoders read
\* ------------------------------------------------------------------------

\* <block s="..."> with its children
Block(s, children) == Xml("block", "", <<XmlAttr("s", s)>>, children)

\* <block var="..."/>, a bare variable reference
VarBlock(name) == Xml("block", "", <<XmlAttr("var", name)>>, << >>)

\* <l>text</l>, a literal slot
Lit(text) == Xml("l", text, << >>, << >>)

\* <l><option>text</option></l>, a slot holding an option; kids are the
\* child nodes of the option node itself
OptionSlot(text, kids) == Xml("l", "", << >>, <<Xml("option", text, << >>, kids)>>)

\* <comment>text</comment>
Comment(text) == Xml("comment", text, << >>, << >>)

\* <script> with its children, a script body
Script(children) == Xml("script", "", << >>, children)

\* <list> with its children, the container slot of a variadic block or of a
\* variable declaration
ListOf(items) == Xml("list", "", << >>, items)

\* the number of children each block type asks of check_children_get_comment!
Required ==
    [s \in DOMAIN BinaryExprs |-> 2] @@ [s \in DOMAIN UnaryExprs |-> 1]
    @@ [s \in DOMAIN VariadicExprs |-> 1]
    @@ [reportListIsEmpty |-> 1, reportListContainsItem |-> 2, reportListItem |-> 2,
        reportCDR |-> 1, reportCONS |-> 2, reportMonadic |-> 2, reportIfElse |-> 3,
        receiveGo |-> 0, receiveKey |-> 1,
        doDeclareVariables |-> 1, doSetVar |-> 2, doChangeVar |-> 2, doFor |-> 4,
        doForEach |-> 3, doRepeat |-> 2, doUntil |-> 2, doIf |-> 2, doForever |-> 1,
        doIfElse |-> 3, doWarp |-> 1, doDeleteFromList |-> 2, doInsertInList |-> 3,
        doReplaceInList |-> 3, doAddToList |-> 2, doReport |-> 1, doWait |-> 1]

\* the block types decoded by parse_hat, by parse_block and by parse_expr
HatTypes == {"receiveGo", "receiveKey"}

StmtTypes ==
    {"doDeclareVariables", "doSetVar", "doChangeVar", "doFor", "doForEach", "doRepeat",
     "doUntil", "doIf", "doForever", "doIfElse", "doWarp", "doDeleteFromList",
     "doInsertInList", "doReplaceInList", "doAddToList", "doReport", "doWait"}

ExprTypes == (DOMAIN Required \ HatTypes) \ StmtTypes

\* a script body that decodes the node in the position of its type: a hat
\* first in the body, a statement as the only statement, an expression as
\* the operand of a doReport statement
InScript(node) ==
    LET s == Xml_attr(node, "s")[1].value IN
    IF s \in ExprTypes THEN Script(<<Block("doReport", <<node>>)>>)
    ELSE Script(<<node>>)

\* ------------------------------------------------------------------------
\* The script bodies the decoders are run on
\* ------------------------------------------------------------------------

\* the sequences over S of length at most n
SeqsUpTo(S, n) == UNION {[1..k -> S] : k \in 0..n}

\* a variable name that no table of the model defines
Undefined == "q"

\* children that would fail to decode, or would define a local, if a decoder
\* went on to them
Poison == {VarBlock(Undefined), ListOf(<<Lit("x")>>)}

\* nodes of every block type with fewer children than the type requires
TooFewNodes ==
    UNION {{Block(s, ch) : ch \in SeqsUpTo(Poison, Required[s] - 1)} : s \in DOMAIN Required}

\* a nested script body with one statement
Body == Script(<<Block("doWait", <<Lit("1")>>)>>)

\* the block types that choose a variant by an option, and the (1-based)
\* child that holds the option
OptionChild ==
    [doDeleteFromList |-> 1, doInsertInList |-> 2, doReplaceInList |-> 1,
     reportListItem |-> 1, reportMonadic |-> 1, receiveKey |-> 1]

\* well-formed children for each block type: distinct literals in the
\* expression slots, a list container, a loop variable or a body where the
\* type wants one, and no option
Canonical(s) ==
    CASE s \in DOMAIN VariadicExprs -> <<ListOf(<<Lit("1"), Lit("2")>>)>>
      [] s = "doDeclareVariables" -> <<ListOf(<<Lit("x"), Lit("y")>>)>>
      [] s \in {"doSetVar", "doChangeVar"} -> <<Lit("x"), Lit("2")>>
      [] s = "doFor" -> <<Lit("x"), Lit("1"), Lit("10"), Body>>
      [] s = "doForEach" -> <<Lit("x"), Lit("1"), Body>>
      [] s \in {"doRepeat", "doUntil", "doIf"} -> <<Lit("1"), Body>>
      [] s \in {"doForever", "doWarp"} -> <<Body>>
      [] s = "doIfElse" -> <<Lit("1"), Body, Script(<< >>)>>
      [] OTHER -> SubSeq(<<Lit("1"), Lit("2"), Lit("10")>>, 1, Required[s])

\* what may follow the required children
Trailing == {<< >>, <<Comment("a\r\nb")>>, <<Lit("0")>>, <<Comment("c"), Lit("0")>>}

\* nodes of every block type with the children it requires
WellFormedNodes ==
    {Block(p[1], Canonical(p[1]) \o p[2]) : p \in (DOMAIN Required) \X Trailing}

\* the option texts: every one some block type knows, the empty text, and
\* one that no block type knows
OptionTexts ==
    DOMAIN MonadicExprs \cup DOMAIN MonadicLogs \cup DOMAIN MonadicPows
        \cup {"id", "last", "all", "any", "random", "space", "", "bogus"}

\* option slots: constant ones for every text, and ones whose option node
\* has a child node of its own
OptionSlots ==
    {OptionSlot(t, << >>) : t \in OptionTexts}
        \cup {OptionSlot(t, <<Lit("1")>>) : t \in {"last", "neg", "space", "", "bogus"}}

\* nodes of the option-driven block types with an option in their slot, and
\* for the two types that insist on an option the slot without one
OptionNodes ==
    {Block(p[1], [Canonical(p[1]) EXCEPT ![OptionChild[p[1]]] = p[2]])
        : p \in (DOMAIN OptionChild) \X OptionSlots}

\* leaves and unknown nodes in expression position
LeafNodes ==
    {Lit("1"), Lit("abc"), VarBlock("x"), VarBlock(Undefined),
     Xml("block", "", <<XmlAttr("var", "x")>>, <<Comment("c")>>),
     Xml("bool", "true", << >>, << >>), Xml("bool", "false", << >>, << >>),
     Xml("bool", "maybe", << >>, << >>),
     Xml("list", "1,\"a\",true", <<XmlAttr("struct", "atomic")>>, << >>),
     Xml("list", "[2]", <<XmlAttr("struct", "atomic")>>, << >>),
     Xml("list", "null", <<XmlAttr("struct", "atomic")>>, << >>),
     Xml("list", "1,{}", <<XmlAttr("struct", "atomic")>>, << >>),
     Xml("list", "1,", <<XmlAttr("struct", "atomic")>>, << >>),
     ListOf(<<Xml("item", "", << >>, <<Lit("1")>>), Xml("item", "", << >>, <<Lit("a")>>)>>),
     ListOf(<<Xml("item", "", << >>, << >>)>>),
     ListOf(<<Xml("item", "", << >>, <<Block("reportSum", <<Lit("1"), Lit("2")>>)>>)>>),
     Block("reportBoolean", <<Xml("l", "", << >>, <<Xml("bool", "true", << >>, << >>)>>)>>),
     Block("reportBoolean", <<Xml("l", "", << >>, <<Xml("bool", "false", << >>, << >>)>>)>>),
     Block("reportBoolean", << >>),
     Block("reportNothing", << >>),
     Block("doWait", <<Lit("1")>>),
     Xml("block", "", << >>, << >>),
     Xml("custom", "", << >>, << >>)}

\* doDeclareVariables over the listed names
Declare(names) ==
    Block("doDeclareVariables", <<ListOf([i \in 1..Len(names) |-> Lit(names[i])])>>)

\* doSetVar of a literal to the named variable
SetVar(name) == Block("doSetVar", <<Lit(name), Lit("1")>>)

\* doReport of the named variable
Report(name) == Block("doReport", <<VarBlock(name)>>)

\* doFor with the named induction variable and the body statements
For(name, body) == Block("doFor", <<Lit(name), Lit("1"), Lit("10"), Script(body)>>)

\* doForEach with the named induction variable and the body statements
ForEach(name, body) == Block("doForEach", <<Lit(name), Lit("1"), Script(body)>>)

\* statements that bind the name n as a local
Binders(n) ==
    {Declare(<<n>>), Declare(<<n, "y">>), Declare(<<n, n>>),
     For(n, << >>), For(n, <<Report(n)>>), For(n, <<SetVar(n)>>), For(n, <<Declare(<<n>>)>>),
     ForEach(n, << >>), ForEach(n, <<Report(n)>>),
     For(n, <<For(n, << >>)>>),
     Block("doWarp", <<Script(<<Declare(<<n>>)>>)>>),
     Block("doIf", <<Lit("1"), Script(<<Declare(<<n>>)>>)>>)}

\* statements that use or bind the name n again
Users(n) ==
    {SetVar(n), Report(n), Report("y"), Declare(<<n>>), For(n, << >>),
     ForEach(n, <<Report(n)>>)}

\* the names the variable scripts bind: one a field or global may also hold,
\* one that only a script binds
Bound == {"x", "w"}

\* script bodies that bind and use locals
VariableScripts ==
    {Script(<< >>)}
        \cup UNION {{Script(<<a>>) : a \in Binders(n)} : n \in Bound}
        \cup UNION {{Script(<<p[1], p[2]>>) : p \in Binders(n) \X Users(n)} : n \in Bound}
        \cup UNION {{Script(<<Block("receiveGo", << >>), p[1], p[2]>>)
                        : p \in {Declare(<<n>>)} \X Users(n)} : n \in Bound}
        \cup {Script(<<Block("receiveGo", << >>), Lit("1")>>),
              Script(<<Lit("1")>>),
              Script(<<Block("doWait", <<Lit("1")>>), Block("receiveGo", << >>)>>),
              Script(<<Block("doSetVar", <<VarBlock("x"), Lit("1")>>)>>),
              Script(<<Block("doFor", <<VarBlock("x"), Lit("1"), Lit("10"), Body>>)>>)}

\* doSetVar and doChangeVar blocks: the target a literal that names a
\* variable some table may define, one only a script binds or one nothing
\* defines, or a node that is no literal; the value a literal or a
\* reference that does not resolve
AssignBlocks ==
    {Block(p[1], <<p[2], p[3]>>)
        : p \in {"doSetVar", "doChangeVar"}
                \X {Lit("x"), Lit("w"), Lit(Undefined), VarBlock("x"),
                    Block("reportSum", <<Lit("1"), Lit("2")>>)}
                \X {Lit("1"), VarBlock(Undefined)}}

\* script bodies that end in such a block, alone or after a declaration of x
AssignScripts ==
    {Script(<<b>>) : b \in AssignBlocks} \cup {Script(<<Declare(<<"x">>), b>>) : b \in AssignBlocks}

\* the script bodies ScriptInfo::parse is run on
ScriptXmls ==
    {InScript(n) : n \in TooFewNodes \cup WellFormedNodes \cup OptionNodes}
        \cup {Script(<<Block("doReport", <<n>>)>>) : n \in LeafNodes}
        \cup VariableScripts \cup AssignScripts

\* ------------------------------------------------------------------------
\* SpecScript: one ScriptInfo decoding a script body, and resolving a
\* variable afterwards, in a sprite whose fields and a role whose globals
\* have been defined
\* ------------------------------------------------------------------------

\* the most declarations in the variables block of the role and of the sprite
MaxDecls == 1

\* the names those variables blocks declare
DeclNames == {"x", "y"}

\* the (name, value) pairs collected from a variables block
Decls(names) == [i \in 1..Len(names) |-> [name |-> names[i], value |-> Number(0)]]

\* the name transformers of SpecScript: the default one, one that renames
\* every name to another name, one that maps every name to one fresh name,
\* and one that rejects a name
ScriptTransformers ==
    {DefaultTransformer,
     [n \in Names |-> Ok(CASE n = "x" -> "y" [] n = "y" -> "w" [] n = "w" -> "x")],
     [n \in Names |-> Ok(Fresh)],
     [n \in Names |-> IF n = "w" THEN Err("()") ELSE Ok(n)]}

\* the names of the role and the sprite the script belongs to
RoleName == "R"

SpriteName == "S"

\* the global tables RoleInfo::parse can have built under T
GlobalTables(T) ==
    {r.self.globals : r \in {rr \in {define_globals(RoleInfo_new(T, RoleName), Decls(names))
                                        : names \in SeqsUpTo(DeclNames, MaxDecls)}
                                : rr.res.kind = "Ok"}}

\* the field tables SpriteInfo::parse can have built under T
FieldTables(T) ==
    {r.self.fields :
        r \in {rr \in {define_fields(SpriteInfo_new(RoleInfo_new(T, RoleName), SpriteName),
                                     Decls(names))
                          : names \in SeqsUpTo(DeclNames, MaxDecls)}
                  : rr.res.kind = "Ok"}}

\* the ScriptInfo of the current state
ThisScript ==
    [ScriptInfo_new(name_transformer, RoleName, globals, SpriteName, fields)
        EXCEPT !.locals = locals]

InitScript ==
    /\ name_transformer \in ScriptTransformers
    /\ globals \in GlobalTables(name_transformer)
    /\ fields \in FieldTables(name_transformer)
    /\ locals = SymbolTable_new
    /\ xml = None
    /\ ret = None
    /\ reader = None
    /\ pc = "new"

\* ScriptInfo::new(sprite).parse(script)
ScriptParse(script) ==
    /\ pc = "new"
    /\ LET r == parse(ThisScript, script) IN
        /\ locals' = r.self.locals
        /\ ret' = Some([call |-> "parse", res |-> r.res])
    /\ xml' = Some(script)
    /\ pc' = "parsed"
    /\ UNCHANGED <<name_transformer, globals, fields, reader>>

\* ScriptInfo::reference_var(name), with the locals the decoded statements
\* have left
ReferenceVar(name) ==
    /\ pc = "parsed"
    /\ ret[1].res.kind = "Ok"
    /\ ret' = Some([call |-> "reference_var", name |-> name,
                    res |-> reference_var(ThisScript, name)])
    /\ pc' = "resolved"
    /\ UNCHANGED <<name_transformer, globals, fields, locals, xml, reader>>

NextScript ==
    \/ \E script \in ScriptXmls : ScriptParse(script)
    \/ \E name \in Names \cup {Undefined} : ReferenceVar(name)

SpecScript == InitScript /\ [][NextScript]_vars

\* ------------------------------------------------------------------------
\* Spec: Parser::parse run on a project tree
\* ------------------------------------------------------------------------

\* the most variable elements in one variables block
MaxVariables == 2

\* the most script bodies in one scripts block
MaxScripts == 2

\* the most children of the root
MaxRoles == 2

\* the name of the stage element
StageName == "Stage"

\* an element without text
Element(name, attrs, children) == Xml(name, "", attrs, children)

\* the name attribute, when the element has one
NameAttr(name_opt) == IF name_opt = None THEN << >> ELSE <<XmlAttr("name", name_opt[1])>>

\* <variable name="..."><l>0</l></variable>
VariableNode(name) == Element("variable", <<XmlAttr("name", name)>>, <<Lit("0")>>)

\* <variables> declaring the names in order; no element when names_opt is None
VariablesNode(names_opt) ==
    IF names_opt = None THEN << >>
    ELSE <<Element("variables", << >>,
                   [i \in 1..Len(names_opt[1]) |-> VariableNode(names_opt[1][i])])>>

\* <scripts> holding the script bodies; no element when bodies_opt is None
ScriptsNode(bodies_opt) ==
    IF bodies_opt = None THEN << >> ELSE <<Element("scripts", << >>, bodies_opt[1])>>

\* <sprite> with its variables and scripts
SpriteNode(name_opt, names_opt, bodies_opt) ==
    Element("sprite", NameAttr(name_opt), VariablesNode(names_opt) \o ScriptsNode(bodies_opt))

\* <sprites> holding the sprite elements; no element when sprites_opt is None
SpritesNode(sprites_opt) ==
    IF sprites_opt = None THEN << >> ELSE <<Element("sprites", << >>, sprites_opt[1])>>

\* <stage> with its variables, its scripts and its sprites
StageNode(name_opt, names_opt, bodies_opt, sprites_opt) ==
    Element("stage", NameAttr(name_opt),
            VariablesNode(names_opt) \o ScriptsNode(bodies_opt) \o SpritesNode(sprites_opt))

\* <role><project> with the stage and the variables of the role
RoleNode(name_opt, names_opt, stage) ==
    Element("role", NameAttr(name_opt),
            <<Element("project", << >>, <<stage>> \o VariablesNode(names_opt))>>)

\* <room> with its children
ProjectNode(children) == Element("room", <<XmlAttr("name", "P")>>, children)

\* the variables blocks of the model: none, or one that declares up to
\* MaxVariables names
VariablesOptions == {None} \cup {Some(names) : names \in SeqsUpTo(DeclNames, MaxVariables)}

\* projects of one role that declare globals and fields of the stage, whose
\* stage has no sprites element or an empty one, and projects whose stage
\* has one sprite that declares fields
VariableProjects ==
    {ProjectNode(<<RoleNode(Some(RoleName), p[1], StageNode(Some(StageName), p[2], None, p[3]))>>)
        : p \in VariablesOptions \X VariablesOptions \X {None, Some(<< >>)}}
    \cup
    {ProjectNode(<<RoleNode(Some(RoleName), Some(<<"x">>),
                            StageNode(Some(StageName), None, None,
                                      Some(<<SpriteNode(Some(SpriteName), f, None)>>)))>>)
        : f \in VariablesOptions}

\* the script bodies of the model: an empty one, one-child bodies that are
\* a variable block, an expression block (one that would not decode), a
\* statement or a hat, and bodies of two children
ScriptBodies ==
    {Script(<< >>),
     Script(<<VarBlock("x")>>),
     Script(<<Block("reportSum", << >>)>>),
     Script(<<Block("doWait", <<Lit("1")>>)>>),
     Script(<<Block("receiveGo", << >>)>>),
     Script(<<Block("doWait", << >>)>>),
     Script(<<Declare(<<"w">>), Report("w")>>),
     Script(<<VarBlock("x"), Block("doWait", <<Lit("1")>>)>>)}

\* the scripts blocks of the model
ScriptsOptions == {Some(bodies) : bodies \in SeqsUpTo(ScriptBodies, MaxScripts)}

\* projects of one role whose stage, or whose one sprite, has scripts
ScriptProjects ==
    {ProjectNode(<<RoleNode(Some(RoleName), None,
                            StageNode(Some(StageName), None, b, Some(<< >>)))>>)
        : b \in ScriptsOptions}
    \cup
    {ProjectNode(<<RoleNode(Some(RoleName), None,
                            StageNode(Some(StageName), None, None,
                                      Some(<<SpriteNode(Some(SpriteName), None, b)>>)))>>)
        : b \in ScriptsOptions}

\* the children of the root: roles that lack a name, their content or their
\* stage, roles whose stage has no sprites element, no sprite, two sprites
\* or an unnamed sprite, and an element that is not a role
RootChildren ==
    {RoleNode(None, None, StageNode(Some(StageName), None, None, Some(<< >>))),
     Element("role", NameAttr(Some(RoleName)), << >>),
     Element("role", NameAttr(Some(RoleName)), <<Element("project", << >>, << >>)>>),
     RoleNode(Some(RoleName), None, StageNode(Some(StageName), None, None, None)),
     RoleNode(Some(RoleName), None, StageNode(Some(StageName), None, None, Some(<< >>))),
     RoleNode(Some("R2"), Some(<<"x">>),
              StageNode(Some(StageName), Some(<<"y">>), Some(<<Script(<<SetVar("y")>>)>>),
                        Some(<<SpriteNode(Some("S1"), None, None),
                               Element("costume", << >>, << >>),
                               SpriteNode(Some("S2"), Some(<<"x">>), None)>>))),
     RoleNode(Some(RoleName), None,
              StageNode(Some(StageName), None, None, Some(<<SpriteNode(None, None, None)>>))),
     RoleNode(Some(RoleName), None, StageNode(None, None, None, Some(<< >>))),
     Element("notes", << >>, << >>)}

\* projects of up to MaxRoles children of the root
RoleProjects == {ProjectNode(children) : children \in SeqsUpTo(RootChildren, MaxRoles)}

\* script bodies that bind the local w and use it: a declaration and a use;
\* a use alone; a declaration inside an if body, a warp body or a loop body,
\* or a loop's induction variable, and a use after that statement
LocalBodies ==
    {Script(<<Declare(<<"w">>), Report("w")>>),
     Script(<<Report("w")>>),
     Script(<<Block("doIf", <<Lit("1"), Script(<<Declare(<<"w">>)>>)>>), Report("w")>>),
     Script(<<Block("doWarp", <<Script(<<Declare(<<"w">>)>>)>>), Report("w")>>),
     Script(<<Block("doForever", <<Script(<<Declare(<<"w">>)>>)>>), Report("w")>>),
     Script(<<For("w", << >>), Report("w")>>)}

\* projects of one role whose stage has up to MaxScripts of these bodies
LocalsProjects ==
    {ProjectNode(<<RoleNode(Some(RoleName), None,
                            StageNode(Some(StageName), None, Some(bodies), Some(<< >>)))>>)
        : bodies \in SeqsUpTo(LocalBodies, MaxScripts)}

\* <variable name="..."/>, a variable without a value
ValuelessNode(name) == Element("variable", <<XmlAttr("name", name)>>, << >>)

\* <variables> declaring the names in order and then a variable without a
\* value
ValuelessBlock(names) ==
    <<Element("variables", << >>,
              [i \in 1..Len(names) |-> VariableNode(names[i])] \o <<ValuelessNode("w")>>)>>

\* projects of one role whose globals, or whose stage's fields, end in a
\* variable without a value
ValuelessProjects ==
    {ProjectNode(<<Element("role", NameAttr(Some(RoleName)),
                           <<Element("project", << >>,
                                     <<StageNode(Some(StageName), None, None, Some(<< >>))>>
                                         \o ValuelessBlock(names))>>)>>)
        : names \in SeqsUpTo(DeclNames, MaxVariables)}
    \cup
    {ProjectNode(<<RoleNode(Some(RoleName), None,
                            Element("stage", NameAttr(Some(StageName)),
                                    ValuelessBlock(names) \o SpritesNode(Some(<< >>))))>>)
        : names \in SeqsUpTo(DeclNames, MaxVariables)}

\* the project trees Parser::parse is run on
ProjectXmls ==
    VariableProjects \cup ScriptProjects \cup RoleProjects \cup ValuelessProjects
        \cup LocalsProjects

\* the name transformers of Spec: every function that maps each declared
\* name to itself, to the other declared name or to a fresh name, or rejects
\* it
ParserTransformers ==
    {[n \in Names |-> IF n \in DeclNames THEN f[n] ELSE Ok(n)]
        : f \in [DeclNames -> {Ok(t) : t \in DeclNames \cup {Fresh}} \cup {Err("()")}]}

\* a Parser as its builder configures it; parse has not been called
Init ==
    /\ name_transformer \in ParserTransformers
    /\ globals = SymbolTable_new
    /\ fields = SymbolTable_new
    /\ locals = SymbolTable_new
    /\ xml = None
    /\ ret = None
    /\ reader = None
    /\ pc = "built"

\* Parser::parse on the tree of the root element
ParserParse(optimize, project) ==
    /\ pc = "built"
    /\ ret' = Some([call |-> "Parser::parse", optimize |-> optimize,
                    res |-> Parser_parse_root(name_transformer, optimize, project)])
    /\ xml' = Some(project)
    /\ pc' = "returned"
    /\ UNCHANGED <<name_transformer, globals, fields, locals, reader>>

Next == \E optimize \in BOOLEAN, project \in ProjectXmls : ParserParse(optimize, project)

Spec == Init /\ [][Next]_vars

\* ------------------------------------------------------------------------
\* xml::reader::EventReader as Parser::parse and parse_xml_root poll it, and
\* parse_xml_root, the ingestion of the root's subtree
\* ------------------------------------------------------------------------

\* xml::name::OwnedName, of which the code reads local_name
OwnedName(local_name) == [local_name |-> local_name]

\* xml::attribute::OwnedAttribute
OwnedAttribute(name, value) == [name |-> OwnedName(name), value |-> value]

\* the XmlEvent variants
XmlEvent_StartDocument == [t |-> "StartDocument"]

XmlEvent_EndDocument == [t |-> "EndDocument"]

XmlEvent_StartElement(name, attributes) ==
    [t |-> "StartElement", name |-> OwnedName(name), attributes |-> attributes]

XmlEvent_EndElement(name) == [t |-> "EndElement", name |-> OwnedName(name)]

XmlEvent_Characters(s) == [t |-> "Characters", s |-> s]

XmlEvent_CData(s) == [t |-> "CData", s |-> s]

XmlEvent_Comment == [t |-> "Comment"]

XmlEvent_Whitespace == [t |-> "Whitespace"]

XmlEvent_ProcessingInstruction == [t |-> "ProcessingInstruction"]

\* xml::reader::Error, the error the reader reports for malformed XML
ReaderError == [t |-> "xml::reader::Error", msg |-> "malformed"]

\* Error::InvalidXml { error }
InvalidXml(error) == [t |-> "InvalidXml", error |-> error]

\* EventReader::new(source): source is the sequence of results the reader
\* produces from the stream, the last of them Ok(EndDocument) or an Err, and
\* pos counts the ones it has produced
EventReader_new(source) == [source |-> source, pos |-> 0, final_result |-> None]

\* EventReader::next: the next result and the reader afterwards.  Once the
\* reader has returned EndDocument or an error, every later call returns
\* that same result again
EventReader_next(self) ==
    IF self.final_result # None THEN [res |-> self.final_result[1], self |-> self]
    ELSE
    LET e == self.source[self.pos + 1] IN
    [res |-> e,
     self |-> [self EXCEPT !.pos = self.pos + 1,
                           !.final_result = IF e.kind = "Err" \/ e.val.t = "EndDocument"
                                            THEN Some(e) ELSE None]]

\* String += &str on the texts of the model
push_str(text, s) ==
    CASE text = "" -> s
      [] s = "" -> text
      [] text = "a\r" /\ s = "\nb" -> "a\r\nb"

\* parse_xml_root: the locals of one active call
XmlRootCall(root_name, root_attrs) ==
    [root_name |-> root_name, root_attrs |-> root_attrs, text |-> "", children |-> << >>]

\* parse_xml_root, the EndElement arm: the Xml the call returns
XmlRootDone(call) ==
    Xml(call.root_name.local_name, clean_newlines(call.text),
        [i \in 1..Len(call.root_attrs) |->
            XmlAttr(call.root_attrs[i].name.local_name, call.root_attrs[i].value)],
        call.children)

\* ------------------------------------------------------------------------
\* The event streams Parser::parse is run on
\* ------------------------------------------------------------------------

\* the text of an element as the reader chunks it
TextEvents(text) ==
    CASE text = "" -> << >>
      [] text = "a\r\nb" -> <<Ok(XmlEvent_Characters("a\r")), Ok(XmlEvent_CData("\nb"))>>
      [] OTHER -> <<Ok(XmlEvent_Characters(text))>>

\* the events of an element: its start, its text, its children, with
\* whitespace after each child, and its end
RECURSIVE ElementEvents(_)
RECURSIVE ChildrenEvents(_)
ChildrenEvents(children) ==
    IF children = << >> THEN << >>
    ELSE ElementEvents(Head(children)) \o <<Ok(XmlEvent_Whitespace)>>
            \o ChildrenEvents(Tail(children))

ElementEvents(node) ==
    <<Ok(XmlEvent_StartElement(node.name,
            [i \in 1..Len(node.attrs) |->
                OwnedAttribute(node.attrs[i].name, node.attrs[i].value)]))>>
        \o TextEvents(node.text) \o ChildrenEvents(node.children)
        \o <<Ok(XmlEvent_EndElement(node.name))>>

\* the events of a well-formed document with the given root element
DocumentEvents(root) ==
    <<Ok(XmlEvent_StartDocument), Ok(XmlEvent_ProcessingInstruction), Ok(XmlEvent_Comment)>>
        \o ElementEvents(root) \o <<Ok(XmlEvent_EndDocument)>>

\* the root elements of the documents: a room without roles, a room whose
\* role decodes, a room whose role refers to an undefined variable, a room
\* with a text that holds a line break, a room inside another element, and
\* two documents that hold no room
DocumentRoots ==
    {ProjectNode(<< >>),
     ProjectNode(<<RoleNode(Some(RoleName), Some(<<"x">>),
                    StageNode(Some(StageName), None, Some(<<Script(<<SetVar("x")>>)>>),
                              Some(<< >>)))>>),
     ProjectNode(<<RoleNode(Some(RoleName), None,
                    StageNode(Some(StageName), None, Some(<<Script(<<SetVar("x")>>)>>),
                              Some(<< >>)))>>),
     ProjectNode(<<Xml("notes", "a\r\nb", << >>, << >>)>>),
     Element("snapdata", << >>, <<Element("media", << >>, << >>), ProjectNode(<< >>)>>),
     Element("project", <<XmlAttr("name", "P")>>, <<Xml("notes", "n", << >>, << >>)>>),
     Element("rooms", << >>, << >>)}

\* a stream that is malformed after its first k events
Malformed(events, k) == SubSeq(events, 1, k) \o <<Err(ReaderError)>>

\* the streams: every document, and every document cut short by malformed
\* XML at every place before its end
Sources ==
    {DocumentEvents(root) : root \in DocumentRoots}
        \cup UNION {{Malformed(DocumentEvents(root), k)
                        : k \in 0..(Len(DocumentEvents(root)) - 1)} : root \in DocumentRoots}

\* ------------------------------------------------------------------------
\* SpecStream: Parser::parse polling the event reader, one event a step
\* ------------------------------------------------------------------------

\* Parser::parse has been called on a stream: the reader is built (line 948)
InitStream ==
    /\ name_transformer = DefaultTransformer
    /\ globals = SymbolTable_new
    /\ fields = SymbolTable_new
    /\ locals = SymbolTable_new
    /\ reader \in {EventReader_new(source) : source \in Sources}
    /\ xml = << >>
    /\ ret = None
    /\ pc = "Parser::parse"

\* Parser::parse returns res
ParserReturn(optimize, res) ==
    /\ ret' = Some([call |-> "Parser::parse", optimize |-> optimize, res |-> res])
    /\ pc' = "returned"

\* Parser::parse, one turn of the loop that looks for the root (lines
\* 949-951, 971)
ParserPoll(optimize) ==
    /\ pc = "Parser::parse"
    /\ LET r == EventReader_next(reader) IN
        /\ reader' = r.self
        /\ IF r.res.kind = "Err"
           THEN ParserReturn(optimize, Err(InvalidProject([t |-> "NoRoot"])))
                    /\ UNCHANGED xml
           ELSE IF r.res.val.t = "StartElement" /\ r.res.val.name.local_name = "room"
           THEN /\ xml' = <<XmlRootCall(r.res.val.name, r.res.val.attributes)>>
                /\ pc' = "parse_xml_root"
                /\ UNCHANGED ret
           ELSE UNCHANGED <<xml, pc, ret>>
    /\ UNCHANGED <<name_transformer, globals, fields, locals>>

\* parse_xml_root, one turn of the loop of the innermost active call; xml
\* holds the active calls, the innermost last.  When the outermost call
\* returns, Parser::parse goes on to its end (lines 952-968)
XmlRootPoll(optimize) ==
    /\ pc = "parse_xml_root"
    /\ LET r == EventReader_next(reader)
           call == xml[Len(xml)]
           outer == SubSeq(xml, 1, Len(xml) - 1)
       IN
        /\ reader' = r.self
        /\ IF r.res.kind = "Err"
           THEN ParserReturn(optimize, Err(InvalidXml(r.res.err))) /\ xml' = << >>
           ELSE
           LET e == r.res.val IN
           CASE e.t = "StartElement" ->
                    /\ xml' = Append(xml, XmlRootCall(e.name, e.attributes))
                    /\ UNCHANGED <<pc, ret>>
             [] e.t = "EndElement" /\ e.name # call.root_name ->
                    ParserReturn(optimize, Panic) /\ xml' = << >>
             [] e.t = "EndElement" /\ e.name = call.root_name /\ outer # << >> ->
                    /\ xml' = [outer EXCEPT ![Len(outer)].children =
                                    Append(@, XmlRootDone(call))]
                    /\ UNCHANGED <<pc, ret>>
             [] e.t = "EndElement" /\ e.name = call.root_name /\ outer = << >> ->
                    /\ xml' = Some(XmlRootDone(call))
                    /\ ParserReturn(optimize,
                            Parser_parse_root(name_transformer, optimize, XmlRootDone(call)))
             [] e.t \in {"Characters", "CData"} ->
                    /\ xml' = [xml EXCEPT ![Len(xml)].text = push_str(@, e.s)]
                    /\ UNCHANGED <<pc, ret>>
             [] e.t \in {"Comment", "Whitespace", "ProcessingInstruction"} ->
                    UNCHANGED <<xml, pc, ret>>
             [] e.t \in {"StartDocument", "EndDocument"} ->
                    ParserReturn(optimize, Panic) /\ xml' = << >>
    /\ UNCHANGED <<name_transformer, globals, fields, locals>>

NextStream == \E optimize \in BOOLEAN : ParserPoll(optimize) \/ XmlRootPoll(optimize)

SpecStream == InitStream /\ [][NextStream]_vars

\* the parser runs on: whenever a turn of either loop can be taken, one is
FairSpecStream == SpecStream /\ WF_vars(NextStream)

\* ------------------------------------------------------------------------
\* Claims about SymbolTable::define (checked under SpecTable)
\* ------------------------------------------------------------------------

\* the last define call: its argument, the table before it, its result
LastDefine == ret[1]

\* C2: for every name transform and every two distinct original names n1, n2
\* that it maps to the same transformed name, once define(n1) has succeeded
\* on a table, define(n2) on that table fails with ConflictingTrans whose
\* names are (n1, n2) and whose trans_name is the shared transformed name.
C2_CollisionIsReported ==
    ret # None =>
        \A n1 \in Names :
            ( /\ n1 # LastDefine.name
              /\ MapHas(LastDefine.before.orig_to_def, n1)
              /\ name_transformer[n1].kind = "Ok"
              /\ name_transformer[n1] = name_transformer[LastDefine.name] )
            => LastDefine.res =
                 Err([t |-> "ConflictingTrans",
                      trans_name |-> name_transformer[n1].val,
                      names |-> <<n1, LastDefine.name>>])

\* ------------------------------------------------------------------------
\* Claims about the script decoder (checked under SpecScript)
\* ------------------------------------------------------------------------

\* the last call of SpecScript: which method, its argument, its result
LastCall == ret[1]

\* the table holds a definition whose original name is name
Defines(table, name) ==
    \E i \in 1..Len(table.orig_to_def) : table.orig_to_def[i].v.name = name

\* C1: a variable reference named x resolves against the script's locals
\* first, then the sprite's fields, then the role's globals: the returned
\* VariableRef carries x and has location Local if x is a local, else Field
\* if x is a field, else Global if x is a global, whatever the outer scopes
\* define; a name in none of the three fails as UndefinedVariable with x.
C1_ResolutionPrecedence ==
    pc = "resolved" =>
        LET x == LastCall.name
            res == LastCall.res
        IN
        /\ Defines(locals, x) =>
                res.kind = "Ok" /\ res.val.name = x /\ res.val.location = "Local"
        /\ ~Defines(locals, x) /\ Defines(fields, x) =>
                res.kind = "Ok" /\ res.val.name = x /\ res.val.location = "Field"
        /\ ~Defines(locals, x) /\ ~Defines(fields, x) /\ Defines(globals, x) =>
                res.kind = "Ok" /\ res.val.name = x /\ res.val.location = "Global"
        /\ ~Defines(locals, x) /\ ~Defines(fields, x) /\ ~Defines(globals, x) =>
                res = Err([t |-> "UndefinedVariable", role |-> RoleName,
                           sprite |-> SpriteName, name |-> x])

\* a reference to a name that all three tables define has resolved
C1_Witness ==
    /\ pc = "resolved"
    /\ Defines(locals, LastCall.name)
    /\ Defines(fields, LastCall.name)
    /\ Defines(globals, LastCall.name)
    /\ LastCall.res.kind = "Ok"
    /\ LastCall.res.val.location = "Local"

\* script bodies that bind a local name and then bind the same name again,
\* by a declaration block or as a loop's induction variable
RedeclaringScripts ==
    {Script(<<Declare(<<n, n>>)>>) : n \in Bound}
        \cup UNION {{Script(<<p[1], p[2]>>)
                        : p \in {Declare(<<n>>), For(n, << >>), ForEach(n, << >>)}
                                \X {Declare(<<n>>), For(n, << >>)}} : n \in Bound}

\* C3: under the default identity transform, declaring a local name that is
\* already a local of the same script succeeds without error.
C3_RedeclaringLocalSucceeds ==
    ( /\ pc = "parsed"
      /\ name_transformer = DefaultTransformer
      /\ xml[1] \in RedeclaringScripts )
    => LastCall.res.kind = "Ok"

\* script bodies that are one loop over an induction variable which no
\* field and no global defines, with a body that reports that variable
LoopBodyScripts ==
    {Script(<<For("w", <<Report("w")>>)>>), Script(<<ForEach("w", <<Report("w")>>)>>)}

\* C5: a for or for-each loop defines its literal induction variable i as a
\* Local before the body is decoded: a reference to i in the body decodes
\* to a VariableRef with location Local and the name and trans_name of the
\* loop's own var.
C5_InductionVariableVisibleInBody ==
    ( /\ pc = "parsed"
      /\ name_transformer["w"].kind = "Ok"
      /\ xml[1] \in LoopBodyScripts )
    => /\ LastCall.res.kind = "Ok"
       /\ LET loop == LastCall.res.val.stmts[1] IN
            /\ loop.stmts[1].value.t = "Variable"
            /\ loop.stmts[1].value.var = loop.var
            /\ loop.var.location = "Local"

\* C6: a node of a block type that requires N children and has fewer fails
\* with BlockChildCount carrying the block type, needed = N and got = the
\* number of children it has, whatever those children are, and the locals
\* of the script are as they were before the node.
C6_ArityCheckedFirst ==
    pc = "parsed" =>
        \A node \in TooFewNodes :
            xml[1] = InScript(node) =>
                /\ LastCall.res =
                     Err([t |-> "InvalidProject",
                          error |-> [t |-> "BlockChildCount", role |-> RoleName,
                                     sprite |-> SpriteName,
                                     block_type |-> Xml_attr(node, "s")[1].value,
                                     needed |-> Required[Xml_attr(node, "s")[1].value],
                                     got |-> Len(node.children)]])
                /\ locals = SymbolTable_new

\* a loop one child short has been rejected for its arity, although its
\* children would not decode
C6_Witness ==
    /\ pc = "parsed"
    /\ xml[1] = InScript(Block("doFor", <<VarBlock(Undefined), ListOf(<<Lit("x")>>),
                                          VarBlock(Undefined)>>))
    /\ LastCall.res.kind = "Err"
    /\ LastCall.res.err.error.t = "BlockChildCount"
    /\ LastCall.res.err.error.needed = 4
    /\ LastCall.res.err.error.got = 3

\* the doDeleteFromList nodes of the model: an option slot, or the literal
\* 1, as first child, the literal 2 as the list, and any trailing children
DeleteNodes ==
    {Block("doDeleteFromList", <<p[1], Lit("2")>> \o p[2])
        : p \in (OptionSlots \cup {Lit("1")}) \X Trailing}

\* C7: doDeleteFromList with at least two children and a decodable list
\* decodes by the option of its first child: "last" gives Pop, "all" gives
\* RemoveAll, no option node gives RemoveAt with the index decoded from the
\* first child, "" fails as BlockOptionNotSelected and any other text fails
\* as BlockOptionUnknown carrying the text; list is decoded from the second
\* child.
C7_DeleteFromListByOption ==
    pc = "parsed" =>
        \A node \in DeleteNodes :
            xml[1] = Script(<<node>>) =>
                LET opt == Xml_get(node.children[1], <<"option">>)
                    res == LastCall.res
                    list == ExprValue(Number(2))
                IN
                CASE opt = None ->
                        /\ res.kind = "Ok"
                        /\ res.val.stmts[1].t = "RemoveAt"
                        /\ res.val.stmts[1].list = list
                        /\ res.val.stmts[1].index = ExprValue(Number(1))
                  [] opt # None /\ opt[1].text = "last" ->
                        /\ res.kind = "Ok"
                        /\ res.val.stmts[1].t = "Pop"
                        /\ res.val.stmts[1].list = list
                  [] opt # None /\ opt[1].text = "all" ->
                        /\ res.kind = "Ok"
                        /\ res.val.stmts[1].t = "RemoveAll"
                        /\ res.val.stmts[1].list = list
                  [] opt # None /\ opt[1].text = "" ->
                        res = Err([t |-> "BlockOptionNotSelected", role |-> RoleName,
                                   sprite |-> SpriteName,
                                   block_type |-> "doDeleteFromList"])
                  [] OTHER ->
                        res = Err([t |-> "InvalidProject",
                                   error |-> [t |-> "BlockOptionUnknown",
                                              role |-> RoleName, sprite |-> SpriteName,
                                              block_type |-> "doDeleteFromList",
                                              got |-> opt[1].text]])

\* a doDeleteFromList with the option "last" has decoded to Pop
C7_Witness ==
    /\ pc = "parsed"
    /\ xml[1] = Script(<<Block("doDeleteFromList", <<OptionSlot("last", << >>), Lit("2")>>)>>)
    /\ LastCall.res.kind = "Ok"
    /\ LastCall.res.val.stmts[1].t = "Pop"

\* the nodes of the option-driven block types whose option node has a child
\* node of its own
NonConstantOptionNodes ==
    {n \in OptionNodes :
        Xml_get(n.children[OptionChild[Xml_attr(n, "s")[1].value]], <<"option">>)[1].children
            # << >>}

\* C8: in every option-driven block family, an option node that has child
\* nodes makes decoding fail with BlockOptionNotConst.
C8_NonConstantOptionRejected ==
    pc = "parsed" =>
        \A node \in NonConstantOptionNodes :
            xml[1] = InScript(node) =>
                LastCall.res = Err([t |-> "BlockOptionNotConst", role |-> RoleName,
                                    sprite |-> SpriteName,
                                    block_type |-> Xml_attr(node, "s")[1].value])

\* ------------------------------------------------------------------------
\* Claims about Parser::parse (checked under Spec)
\* ------------------------------------------------------------------------

\* the result of the last Parser::parse call
ParseResult == ret[1].res

\* the role elements of the project tree, and the stage of a role element
RoleElements == ChildrenNamed(xml[1].children, "role")

StageOf(role_xml) == Xml_get(role_xml, <<"project", "stage">>)[1]

\* the sprite elements declared under a stage
DeclaredSprites(stage) ==
    IF Xml_get(stage, <<"sprites">>) = None THEN << >>
    ELSE ChildrenNamed(Xml_get(stage, <<"sprites">>)[1].children, "sprite")

\* the names a variables block under the node declares, in order
DeclaredNames(node) ==
    IF Xml_get(node, <<"variables">>) = None THEN << >>
    ELSE LET vs == ChildrenNamed(Xml_get(node, <<"variables">>)[1].children, "variable")
         IN [i \in 1..Len(vs) |-> Xml_attr(vs[i], "name")[1].value]

\* the variables block under the node declares one name twice, and the name
\* transformer accepts that name
DeclaresTwice(node) ==
    LET names == DeclaredNames(node) IN
    \E i, j \in 1..Len(names) :
        i < j /\ names[i] = names[j] /\ name_transformer[names[i]].kind = "Ok"

\* C4: a variables block that declares the same original name twice in the
\* Global scope of a role, or twice in the Field scope of one sprite (the
\* stage included), under a name transform that accepts the name, makes
\* the parse fail: no Project is returned.
C4_DuplicateDeclarationFails ==
    ( /\ pc = "returned"
      /\ xml[1] \in VariableProjects
      /\ LET stage == StageOf(RoleElements[1]) IN
            \/ DeclaresTwice(Xml_get(RoleElements[1], <<"project">>)[1])
            \/ DeclaresTwice(stage)
            \/ \E k \in 1..Len(DeclaredSprites(stage)) : DeclaresTwice(DeclaredSprites(stage)[k]) )
    => ParseResult.kind # "Ok"

\* the script bodies of the scripts block of a sprite element
ScriptBodiesOf(sprite_xml) ==
    IF Xml_get(sprite_xml, <<"scripts">>) = None THEN << >>
    ELSE Xml_get(sprite_xml, <<"scripts">>)[1].children

\* a definition stub: a body of exactly one child that has a var attribute
\* or an s attribute that starts with "report"
IsStub(body) ==
    /\ Len(body.children) = 1
    /\ \/ Xml_attr(body.children[1], "var") # None
       \/ /\ Xml_attr(body.children[1], "s") # None
          /\ starts_with_report(Xml_attr(body.children[1], "s")[1].value)

\* a definition stub or a body without children
IsStubOrEmpty(body) == Len(body.children) = 0 \/ IsStub(body)

\* the results of decoding, in document order, the bodies of the sprite
\* element that Drop does not drop; the sprites of these projects have no
\* fields and their role no globals
DecodedBodies(sprite_xml, Drop(_)) ==
    LET kept == SelectSeq(ScriptBodiesOf(sprite_xml), LAMBDA b : ~Drop(b))
        info == ScriptInfo_new(name_transformer, RoleName, SymbolTable_new,
                               Xml_attr(sprite_xml, "name")[1].value, SymbolTable_new)
    IN [k \in 1..Len(kept) |-> parse(info, kept[k]).res]

\* every sprite's emitted scripts are the decoded bodies that Drop does not
\* drop, in document order; the parse fails only if one of them fails to
\* decode
EmitsAllBut(Drop(_)) ==
    ( pc = "returned" /\ xml[1] \in ScriptProjects ) =>
        LET stage == StageOf(RoleElements[1])
            sprites_xml == <<stage>> \o DeclaredSprites(stage)
            decoded == [i \in 1..Len(sprites_xml) |-> DecodedBodies(sprites_xml[i], Drop)]
        IN
        IF \A i \in 1..Len(sprites_xml) : \A k \in 1..Len(decoded[i]) : decoded[i][k].kind = "Ok"
        THEN /\ ParseResult.kind = "Ok"
             /\ \A i \in 1..Len(sprites_xml) :
                    ParseResult.val.roles[1].sprites[i].scripts
                        = [k \in 1..Len(decoded[i]) |-> decoded[i][k].val]
        ELSE ParseResult.kind = "Err"

\* C9: for every sprite, the emitted scripts are, in document order, exactly
\* the script bodies of its scripts block that are not definition stubs; a
\* stub is dropped without being decoded and without an error, and every
\* other body is decoded and kept.
C9_AllButStubsEmitted == EmitsAllBut(IsStub)

\* C9, amended: for every sprite, the emitted scripts are, in document
\* order, exactly the script bodies of its scripts block that have at least
\* one child and are not definition stubs; a stub is dropped without being
\* decoded and without an error, and so is a body without children.
C9_AllButStubsAndEmptyEmitted == EmitsAllBut(IsStubOrEmpty)

\* a scripts block of a reporter stub that would not decode and a body of
\* two statements has been parsed, and one script was emitted
C9_Witness ==
    /\ pc = "returned"
    /\ xml[1] \in ScriptProjects
    /\ ScriptBodiesOf(StageOf(RoleElements[1]))
            = <<Script(<<Block("reportSum", << >>)>>), Script(<<Declare(<<"w">>), Report("w")>>)>>
    /\ ParseResult.kind = "Ok"
    /\ Len(ParseResult.val.roles[1].sprites[1].scripts) = 1
    /\ Len(ParseResult.val.roles[1].sprites[1].scripts[1].stmts) = 2

\* C10: for every role that parses successfully the emitted sprites are not
\* empty: the first is the stage resolved as a sprite, with the stage's name
\* and fields, and the rest are the sprite elements declared under the
\* stage, in document order; also when the stage declares no sprites.
C10_StageIsFirstSprite ==
    ( pc = "returned" /\ ParseResult.kind = "Ok" ) =>
        \A r \in 1..Len(RoleElements) :
            LET stage == StageOf(RoleElements[r])
                declared == DeclaredSprites(stage)
                sprites == ParseResult.val.roles[r].sprites
            IN
            /\ Len(sprites) = 1 + Len(declared)
            /\ sprites[1].name = Xml_attr(stage, "name")[1].value
            /\ [i \in 1..Len(sprites[1].fields) |-> sprites[1].fields[i].name]
                    = DeclaredNames(stage)
            /\ \A k \in 1..Len(declared) :
                    sprites[k + 1].name = Xml_attr(declared[k], "name")[1].value

\* ------------------------------------------------------------------------
\* Claims about Parser::parse on an event stream (checked under SpecStream
\* and FairSpecStream)
\* ------------------------------------------------------------------------

\* the stream holds the start of a room element
HasRoom(source) ==
    \E i \in 1..Len(source) :
        /\ source[i].kind = "Ok"
        /\ source[i].val.t = "StartElement"
        /\ source[i].val.name.local_name = "room"

\* C11: for every input stream Parser::parse terminates, returning a Project
\* or an error, and when the stream holds no room element what it returns is
\* the NoRoot error.
C11_ParseTerminates ==
    <>( /\ pc = "returned"
        /\ ParseResult.kind \in {"Ok", "Err"}
        /\ ~HasRoom(reader.source) => ParseResult = Err(InvalidProject([t |-> "NoRoot"])) )

\* C12: whenever the event reader has reported malformed XML to Parser::parse,
\* before the root or inside the root's subtree, parse returns InvalidXml
\* carrying the reader's error.
C12_MalformedXmlIsInvalidXml ==
    ( /\ pc = "returned"
      /\ reader.final_result # None
      /\ reader.final_result[1].kind = "Err" )
        => ParseResult = Err(InvalidXml(reader.final_result[1].err))

\* ------------------------------------------------------------------------
\* The variable references of a decoded script
\* ------------------------------------------------------------------------

\* whether field f of a decoded node of variant t holds a sequence of nodes
\* (a Vec or an Option) rather than one node
HoldsNodes(t, f) ==
    \/ f \in {"stmts", "values", "lists", "from", "to"}
    \/ t \in {"If", "IfElse"} /\ f \in {"then", "otherwise"}

\* the VariableRefs held anywhere in a decoded statement or expression
RECURSIVE RefsOf(_)
RefsOf(node) ==
    (IF "var" \in DOMAIN node THEN {node.var} ELSE {})
        \cup (IF "vars" \in DOMAIN node THEN {node.vars[i] : i \in 1..Len(node.vars)} ELSE {})
        \cup UNION {IF HoldsNodes(node.t, f)
                    THEN UNION {RefsOf(node[f][i]) : i \in 1..Len(node[f])}
                    ELSE RefsOf(node[f])
                        : f \in DOMAIN node \ {"t", "v", "c", "comment", "var", "vars"}}

\* the VariableRefs of a decoded Script
ScriptRefs(script) == UNION {RefsOf(script.stmts[i]) : i \in 1..Len(script.stmts)}

\* the VariableDefs a symbol table holds
TableDefs(table) == {table.orig_to_def[i].v : i \in 1..Len(table.orig_to_def)}

\* ------------------------------------------------------------------------
\* Claims about the names of definitions and references (checked under
\* SpecScript)
\* ------------------------------------------------------------------------

\* the VariableRefs the last call has returned
ReturnedRefs ==
    IF ret = None \/ LastCall.res.kind # "Ok" THEN {}
    ELSE IF LastCall.call = "parse" THEN ScriptRefs(LastCall.res.val)
    ELSE {LastCall.res.val}

\* C13: with the default name transformer every VariableDef of the globals,
\* the fields and the locals, and every VariableRef a decoded script or a
\* resolved name holds, has trans_name equal to its original name.
C13_DefaultKeepsNames ==
    name_transformer = DefaultTransformer =>
        /\ \A def \in TableDefs(globals) \cup TableDefs(fields) \cup TableDefs(locals) :
                def.trans_name = def.name
        /\ \A ref \in ReturnedRefs : ref.trans_name = ref.name

\* C13 witness: under the default transformer a script has been decoded that
\* defined a local and holds a reference, in a sprite with a field and a role
\* with a global.
C13_Witness ==
    /\ name_transformer = DefaultTransformer
    /\ pc = "parsed"
    /\ TableDefs(globals) # {}
    /\ TableDefs(fields) # {}
    /\ TableDefs(locals) # {}
    /\ \E ref \in ReturnedRefs : ref.location = "Field"
    /\ \E ref \in ReturnedRefs : ref.location = "Local"

\* ------------------------------------------------------------------------
\* Claims about a failed SymbolTable::define (checked under SpecTable)
\* ------------------------------------------------------------------------

\* C14: whenever define returns an error the table is as it was before the
\* call: both maps hold the same entries in the same order, and get and
\* into_defs return what they returned before.
C14_FailedDefineLeavesTable ==
    (ret # None /\ LastDefine.res.kind = "Err") =>
        /\ globals.orig_to_def = LastDefine.before.orig_to_def
        /\ globals.trans_to_orig = LastDefine.before.trans_to_orig
        /\ \A n \in Names :
                SymbolTable_get(globals, n) = SymbolTable_get(LastDefine.before, n)
        /\ into_defs(globals) = into_defs(LastDefine.before)

\* C14 witness: define has failed with a collision on a table that held
\* two definitions.
C14_Witness ==
    /\ ret # None
    /\ LastDefine.res.kind = "Err"
    /\ LastDefine.res.err.t = "ConflictingTrans"
    /\ Len(LastDefine.before.orig_to_def) = 2

\* ------------------------------------------------------------------------
\* Claims about the first child of a script body (checked under SpecScript)
\* ------------------------------------------------------------------------

\* the node is a block of a recognized trigger type
IsTrigger(node) ==
    /\ node.name = "block"
    /\ Xml_attr(node, "s") # None
    /\ Xml_attr(node, "s")[1].value \in HatTypes

\* the error that names an unrecognized top-level tag
UnknownBlockMetaType(meta_type) ==
    Err(InvalidProject([t |-> "UnknownBlockMetaType", role |-> RoleName,
                        sprite |-> SpriteName, meta_type |-> meta_type]))

\* C15: an empty body decodes to hat None and no statements; a decoded body
\* whose first child is a recognized trigger has that hat and one statement
\* for each remaining child; any other decoded body has hat None and one
\* statement for each child; and a body whose first non-hat child is not a
\* block node fails with UnknownBlockMetaType naming that child's tag, be it
\* the first child of the body or the child after the hat.
C15_FirstChildOfScript ==
    pc = "parsed" =>
        LET children == xml[1].children
            res == LastCall.res
        IN
        /\ children = << >> => res = Ok([hat |-> None, stmts |-> << >>])
        /\ (children # << >> /\ res.kind = "Ok") =>
                IF IsTrigger(children[1])
                THEN res.val.hat # None /\ Len(res.val.stmts) = Len(children) - 1
                ELSE res.val.hat = None /\ Len(res.val.stmts) = Len(children)
        /\ (children # << >> /\ children[1].name # "block") =>
                res = UnknownBlockMetaType(children[1].name)
        /\ ( /\ Len(children) >= 2
             /\ IsTrigger(children[1])
             /\ parse_hat(ThisScript, children[1]).kind = "Ok"
             /\ children[2].name # "block" ) =>
                res = UnknownBlockMetaType(children[2].name)

\* ------------------------------------------------------------------------
\* Claims about doSetVar and doChangeVar (checked under SpecScript)
\* ------------------------------------------------------------------------

\* the definition of name in the table
DefOf(table, name) == CHOOSE def \in TableDefs(table) : def.name = name

\* the reference that the Local, Field, Global chain gives for name, from
\* the tables of the state
ChainRef(name) ==
    CASE Defines(locals, name) ->
            [name |-> name, trans_name |-> DefOf(locals, name).trans_name,
             location |-> "Local"]
      [] ~Defines(locals, name) /\ Defines(fields, name) ->
            [name |-> name, trans_name |-> DefOf(fields, name).trans_name,
             location |-> "Field"]
      [] OTHER ->
            [name |-> name, trans_name |-> DefOf(globals, name).trans_name,
             location |-> "Global"]

\* the last child of the decoded body, and the last decoded statement
LastBlock == xml[1].children[Len(xml[1].children)]

LastStmt == LastCall.res.val.stmts[Len(LastCall.res.val.stmts)]

\* C16: a doSetVar or doChangeVar block with two children whose first child
\* is no l node fails with DerefAssignment; one whose first child is an l
\* node naming a variable that no table defines fails with UndefinedVariable
\* of that name; and when the block decodes, the Assign has as its only
\* target, and the AddAssign as its target, the reference that the Local,
\* Field, Global chain gives for the name.
C16_AssignmentTarget ==
    ( /\ pc = "parsed"
      /\ xml[1] \in AssignScripts
      /\ Len(xml[1].children) = 2 => Defines(locals, "x") )
    =>
        LET target == LastBlock.children[1]
            res == LastCall.res
        IN
        /\ target.name # "l" =>
                res = Err([t |-> "DerefAssignment", role |-> RoleName,
                           sprite |-> SpriteName])
        /\ ( /\ target.name = "l"
             /\ ~Defines(locals, target.text)
             /\ ~Defines(fields, target.text)
             /\ ~Defines(globals, target.text) ) =>
                res = Err([t |-> "UndefinedVariable", role |-> RoleName,
                           sprite |-> SpriteName, name |-> target.text])
        /\ res.kind = "Ok" =>
                IF Xml_attr(LastBlock, "s")[1].value = "doSetVar"
                THEN LastStmt.t = "Assign" /\ LastStmt.vars = <<ChainRef(target.text)>>
                ELSE LastStmt.t = "AddAssign" /\ LastStmt.var = ChainRef(target.text)

\* C16 witness: an assignment to x has decoded after a declaration of x, in
\* a sprite that has a field x, and its target is the local.
C16_Witness ==
    /\ pc = "parsed"
    /\ xml[1] \in AssignScripts
    /\ Len(xml[1].children) = 2
    /\ Defines(fields, "x")
    /\ LastCall.res.kind = "Ok"
    /\ LastStmt.t = "AddAssign"
    /\ LastStmt.var.location = "Local"

\* ------------------------------------------------------------------------
\* Claims about the Project that Parser::parse returns (checked under Spec)
\* ------------------------------------------------------------------------

\* no two VariableDefs of the sequence share a trans_name or a name
DistinctDefs(defs) ==
    \A i, j \in 1..Len(defs) :
        i # j => defs[i].trans_name # defs[j].trans_name /\ defs[i].name # defs[j].name

\* C17: in every Project that parse returns, under every name transformer,
\* no two globals of a role share a trans_name or an original name, and no
\* two fields of a sprite do.
C17_NamesUniqueInScope ==
    (pc = "returned" /\ ParseResult.kind = "Ok") =>
        \A r \in 1..Len(ParseResult.val.roles) :
            LET role == ParseResult.val.roles[r] IN
            /\ DistinctDefs(role.globals)
            /\ \A s \in 1..Len(role.sprites) : DistinctDefs(role.sprites[s].fields)

\* ------------------------------------------------------------------------
\* Claims about the identity of a VariableRef (checked under SpecScript)
\* ------------------------------------------------------------------------

\* the symbol table a VariableLocation names
TableAt(location) ==
    CASE location = "Local" -> locals
      [] location = "Field" -> fields
      [] location = "Global" -> globals

\* C18: every VariableRef a decoded script or a resolved name holds has a
\* location of Local, Field or Global and carries the name and trans_name of
\* a VariableDef of the table its location names; so two references of one
\* location and one name are equal in name, trans_name and location.
C18_RefCopiesDefinition ==
    /\ \A ref \in ReturnedRefs :
        /\ ref.location \in {"Local", "Field", "Global"}
        /\ \E def \in TableDefs(TableAt(ref.location)) :
                def.name = ref.name /\ def.trans_name = ref.trans_name
    /\ \A r1, r2 \in ReturnedRefs :
        (r1.location = r2.location /\ r1.name = r2.name) => r1 = r2

\* C18 witness: under a transformer that renames, a decoded script holds a
\* Local reference and a reference into an outer table, one of them renamed.
C18_Witness ==
    /\ pc = "parsed"
    /\ \E ref \in ReturnedRefs : ref.location = "Local"
    /\ \E ref \in ReturnedRefs : ref.location \in {"Field", "Global"}
    /\ \E ref \in ReturnedRefs : ref.trans_name # ref.name

\* ------------------------------------------------------------------------
\* Claims about the order in which Parser::parse meets errors (checked
\* under Spec)
\* ------------------------------------------------------------------------

\* the elements whose children are decoded one after the other: the roles of
\* the root, the variables of a block, the scripts of a scripts block, the
\* sprites of a stage and the statements of a script
IsList(node) == node.name \in {"room", "variables", "scripts", "sprites", "script"}

\* the numbers of a set in ascending order
Ascending(S) ==
    CHOOSE s \in [1..Cardinality(S) -> S] : \A i, j \in 1..Cardinality(S) : i < j => s[i] < s[j]

\* the children of a node in the order the claim names: the globals of a
\* role before its stage, else as the document lists them
DecodeOrder(node) ==
    LET n == Len(node.children)
        first == {i \in 1..n : node.name = "project" /\ node.children[i].name = "variables"}
    IN Ascending(first) \o Ascending((1..n) \ first)

\* the paths of the children of lists under the node, in that order, each
\* before the ones under it
RECURSIVE ItemPaths(_, _)
ItemPaths(node, path) ==
    LET order == DecodeOrder(node)
        RECURSIVE From(_)
        From(k) ==
            IF k > Len(order) THEN << >>
            ELSE LET p == Append(path, order[k]) IN
                 (IF IsList(node) THEN <<p>> ELSE << >>)
                    \o ItemPaths(node.children[order[k]], p) \o From(k + 1)
    IN From(1)

\* the node without the children of lists whose paths are not kept
RECURSIVE Keep(_, _, _)
Keep(node, path, kept) ==
    LET n == Len(node.children)
        stay == {i \in 1..n : ~IsList(node) \/ Append(path, i) \in kept}
        idx == Ascending(stay)
    IN [node EXCEPT !.children =
            [k \in 1..Len(idx) |-> Keep(node.children[idx[k]], Append(path, idx[k]), kept)]]

\* the project cut after each of its list children in turn: what the parser
\* has met when it reaches that child
Prefixes(project) ==
    LET items == ItemPaths(project, << >>) IN
    {Keep(project, << >>, {items[i] : i \in 1..k}) : k \in 0..Len(items)}

\* C19: parsing is fail-fast in the order role by role, globals before
\* sprites, fields before scripts, statements in sequence: when the project
\* cut after one of its nodes fails, the whole project fails with that same
\* error, whatever follows the node.
C19_FailFast ==
    pc = "returned" =>
        \A prefix \in Prefixes(xml[1]) :
            LET r == Parser_parse_root(name_transformer, LastCall.optimize, prefix) IN
            r.kind = "Err" => ParseResult = r

\* ------------------------------------------------------------------------
\* Claims about the doDeclareVariables block (checked under SpecScript)
\* ------------------------------------------------------------------------

\* the decoded body starts with a doDeclareVariables block that has one
\* child
StartsWithDeclaration ==
    /\ xml # None
    /\ xml[1].children # << >>
    /\ Xml_attr(xml[1].children[1], "s") = Some(XmlAttr("s", "doDeclareVariables"))
    /\ Len(xml[1].children[1].children) = 1

\* the names that block lists, in order
ListedNames ==
    LET items == xml[1].children[1].children[1].children IN
    [i \in 1..Len(items) |-> items[i].text]

\* the Local reference to a listed name
LocalRef(name) ==
    [name |-> name, trans_name |-> name_transformer[name].val, location |-> "Local"]

\* C20: a doDeclareVariables block at the start of a script (so that no name
\* is yet local) that lists distinct names which the name transformer accepts
\* and maps to distinct names decodes, when it is the whole body, to one
\* Assign statement whose vars are the Local references of the names in
\* listed order and whose value is Number(0), and defines each of the names
\* in the locals with value Number(0); when statements follow and the script
\* decodes, the Assign is its first statement and every reference to a
\* listed name in the script is that Local reference; and each listed name
\* resolves as Local after the script.
C20_DeclareDefinesLocals ==
    ( /\ pc \in {"parsed", "resolved"}
      /\ StartsWithDeclaration
      /\ \A i \in 1..Len(ListedNames) : name_transformer[ListedNames[i]].kind = "Ok"
      /\ \A i, j \in 1..Len(ListedNames) :
            i # j => /\ ListedNames[i] # ListedNames[j]
                     /\ name_transformer[ListedNames[i]] # name_transformer[ListedNames[j]] )
    =>
        LET names == ListedNames
            assign == [t |-> "Assign", vars |-> [i \in 1..Len(names) |-> LocalRef(names[i])],
                       value |-> ExprValue(Number(0)), comment |-> None]
        IN
        /\ (pc = "parsed" /\ Len(xml[1].children) = 1) =>
                /\ LastCall.res = Ok([hat |-> None, stmts |-> <<assign>>])
                /\ \A i \in 1..Len(names) :
                        /\ Defines(locals, names[i])
                        /\ DefOf(locals, names[i]).value = Number(0)
        /\ (pc = "parsed" /\ LastCall.res.kind = "Ok") =>
                /\ LastCall.res.val.stmts[1] = assign
                /\ \A ref \in ReturnedRefs :
                        (\E i \in 1..Len(names) : ref.name = names[i]) => ref = LocalRef(ref.name)
        /\ pc = "resolved" =>
                \A i \in 1..Len(names) :
                    LastCall.name = names[i] => LastCall.res = Ok(LocalRef(names[i]))

\* ------------------------------------------------------------------------
\* Claims about the desugared list blocks (checked under SpecScript)
\* ------------------------------------------------------------------------

\* the comment a block carries after its required children
CommentOf(trailing) ==
    IF trailing = << >> \/ trailing[1].name # "comment" THEN None
    ELSE Some(IF trailing[1].text = "a\r\nb" THEN "a\nb" ELSE trailing[1].text)

\* the expression a sugar block with operands list and item, in the order of
\* its children, stands for
Desugared(s, list, item, comment) ==
    CASE s = "reportListIsEmpty" ->
            [t |-> "Greater",
             left |-> [t |-> "Listlen", value |-> list, comment |-> None],
             right |-> ExprValue(Number(0)), comment |-> comment]
      [] s = "reportListContainsItem" ->
            [t |-> "Greater",
             left |-> [t |-> "ListFind", list |-> list, value |-> item, comment |-> None],
             right |-> ExprValue(Number(0)), comment |-> comment]
      [] s = "reportCDR" ->
            [t |-> "ListSlice", value |-> list, from |-> Some(ExprValue(Number(2))),
             to |-> None, comment |-> comment]

\* C21: reportListIsEmpty(list) decodes to Greater of Listlen of the list and
\* Number(0), reportListContainsItem(list, item) to Greater of ListFind with
\* that list and that value and Number(0), reportCDR(list) to ListSlice of
\* the list from Number(2) with no end; a trailing comment is on the outer
\* node and the inner node has none.
C21_SugarBlocks ==
    pc = "parsed" =>
        \A s \in {"reportListIsEmpty", "reportListContainsItem", "reportCDR"} :
            \A trailing \in Trailing :
                xml[1] = InScript(Block(s, Canonical(s) \o trailing)) =>
                    /\ LastCall.res.kind = "Ok"
                    /\ LastStmt.value =
                         Desugared(s, ExprValue(Number(1)), ExprValue(Number(2)),
                                   CommentOf(trailing))

\* ------------------------------------------------------------------------
\* Claims about the errors of duplicate declarations (checked under Spec)
\* ------------------------------------------------------------------------

\* C22: under every name transformer that accepts the name, a role whose
\* globals declare one name twice fails with GlobalsWithSameName of that
\* name, and a stage (resolved as a sprite) whose fields declare one name
\* twice fails with FieldsWithSameName of that name; and an error
\* GlobalsWithSameTransName or FieldsWithSameTransName names two different
\* original names.
C22_DuplicateNameError ==
    (pc = "returned" /\ xml[1] \in VariableProjects) =>
        LET content == Xml_get(RoleElements[1], <<"project">>)[1]
            stage == StageOf(RoleElements[1])
        IN
        /\ \A n \in DeclNames :
            (DeclaredNames(content) = <<n, n>> /\ name_transformer[n].kind = "Ok") =>
                ParseResult = Err(InvalidProject([t |-> "GlobalsWithSameName",
                                                  role |-> RoleName, name |-> n]))
        /\ \A n \in DeclNames :
            ( /\ DeclaredNames(content) = << >>
              /\ Xml_get(stage, <<"sprites">>) # None
              /\ DeclaredNames(stage) = <<n, n>>
              /\ name_transformer[n].kind = "Ok" ) =>
                ParseResult = Err(InvalidProject([t |-> "FieldsWithSameName",
                                                  role |-> RoleName, sprite |-> StageName,
                                                  name |-> n]))
        /\ ( /\ ParseResult.kind = "Err"
             /\ ParseResult.err.t \in {"GlobalsWithSameTransName", "FieldsWithSameTransName"} ) =>
                ParseResult.err.names[1] # ParseResult.err.names[2]

\* ------------------------------------------------------------------------
\* Claims about the outcomes of SymbolTable::define (checked under SpecTable)
\* ------------------------------------------------------------------------

\* C23: for every name transformer and every sequence of define calls on one
\* table, no call panics, every outcome being Ok or a SymbolError; and for
\* every name that could be defined next, when the index trans_to_orig has
\* an entry under its transformed name, the original name stored there is a
\* key of orig_to_def.
C23_DefineNeverPanics ==
    /\ ret # None => LastDefine.res.kind \in {"Ok", "Err"}
    /\ \A n \in Names :
        ( /\ name_transformer[n].kind = "Ok"
          /\ MapHas(globals.trans_to_orig, name_transformer[n].val) ) =>
            MapHas(globals.orig_to_def, MapGet(globals.trans_to_orig, name_transformer[n].val))

\* ------------------------------------------------------------------------
\* Claims about doInsertInList and doReplaceInList without an option
\* (checked under SpecScript)
\* ------------------------------------------------------------------------

\* C24: a doInsertInList block with children (value, position, list) whose
\* position child has no option decodes to InsertAt with the value of the
\* first child, the index of the second and the list of the third; a
\* doReplaceInList block with children (position, list, value) and no option
\* decodes to IndexAssign with the index of the first child, the list of the
\* second and the value of the third.
C24_IndexFromPositionChild ==
    pc = "parsed" =>
        \A trailing \in Trailing :
            /\ xml[1] = Script(<<Block("doInsertInList", Canonical("doInsertInList") \o trailing)>>) =>
                /\ LastCall.res.kind = "Ok"
                /\ LastStmt = [t |-> "InsertAt", value |-> ExprValue(Number(1)),
                               index |-> ExprValue(Number(2)), list |-> ExprValue(Number(10)),
                               comment |-> CommentOf(trailing)]
            /\ xml[1] = Script(<<Block("doReplaceInList", Canonical("doReplaceInList") \o trailing)>>) =>
                /\ LastCall.res.kind = "Ok"
                /\ LastStmt = [t |-> "IndexAssign", index |-> ExprValue(Number(1)),
                               list |-> ExprValue(Number(2)), value |-> ExprValue(Number(10)),
                               comment |-> CommentOf(trailing)]

\* ------------------------------------------------------------------------
\* Claims about reportCONS (checked under SpecScript)
\* ------------------------------------------------------------------------

\* C25: a reportCONS block with children (item, list) decodes to Listcat
\* whose lists are exactly two, the first decoded from the first child and
\* the second from the second child.
C25_ConsHoldsTheList ==
    pc = "parsed" =>
        \A trailing \in Trailing :
            xml[1] = InScript(Block("reportCONS", Canonical("reportCONS") \o trailing)) =>
                /\ LastCall.res.kind = "Ok"
                /\ LastStmt.value.t = "Listcat"
                /\ LastStmt.value.lists = <<ExprValue(Number(1)), ExprValue(Number(2))>>

\* ------------------------------------------------------------------------
\* Claims about the lifetime of locals (checked under Spec)
\* ------------------------------------------------------------------------

\* the body uses w before any of its statements has bound it
UsesUnbound(body) == body = Script(<<Report("w")>>)

\* the Return of the local w, the statement a use of w decodes to
ReturnLocal ==
    [t |-> "Return",
     value |-> [t |-> "Variable",
                var |-> [name |-> "w", trans_name |-> name_transformer["w"].val,
                         location |-> "Local"],
                comment |-> None],
     comment |-> None]

\* C26: every top-level script of a sprite starts with an empty local table:
\* a script that uses w before binding it fails with UndefinedVariable of w,
\* whatever the scripts before it have declared; and a local that a
\* statement has defined, at the top of the script, inside an if, warp or
\* loop body or as a loop's induction variable, is still in the local table
\* after that statement: the use that follows decodes to the Local reference.
C26_LocalsLiveForOneScript ==
    (pc = "returned" /\ xml[1] \in LocalsProjects) =>
        LET bodies == ScriptBodiesOf(StageOf(RoleElements[1])) IN
        IF \E k \in 1..Len(bodies) : UsesUnbound(bodies[k])
        THEN ParseResult = Err([t |-> "UndefinedVariable", role |-> RoleName,
                                sprite |-> StageName, name |-> "w"])
        ELSE /\ ParseResult.kind = "Ok"
             /\ Len(ParseResult.val.roles[1].sprites[1].scripts) = Len(bodies)
             /\ \A k \in 1..Len(bodies) :
                    LET stmts == ParseResult.val.roles[1].sprites[1].scripts[k].stmts IN
                    Len(stmts) = 2 /\ stmts[2] = ReturnLocal

\* C26 witness: a script that uses w alone has failed after a script that
\* declared w.
C26_Witness ==
    /\ pc = "returned"
    /\ xml[1] \in LocalsProjects
    /\ LET bodies == ScriptBodiesOf(StageOf(RoleElements[1])) IN
        /\ Len(bodies) = 2
        /\ bodies[1] = Script(<<Declare(<<"w">>), Report("w")>>)
        /\ UsesUnbound(bodies[2])
    /\ ParseResult.kind = "Err"

====
